---- MODULE Spec2Model ----
(***************************************************************************)
(* Acquisition layer of pharmyrus: the per-backend circuit breaker         *)
(* (app/crawlers/base_crawler.py), the three concrete backends             *)
(* (playwright_crawler.py, httpx_crawler.py, selenium_crawler.py) and the  *)
(* fallback manager (crawler_manager.py); above it the run of the          *)
(* orchestrator (services/v6_layered_orchestrator.py) and the endpoints    *)
(* that share one orchestrator (api_deploy.py).                            *)
(*                                                                         *)
(* A backend is a record; the methods of BaseCrawler and of its subclasses *)
(* are operators from a backend record (and the clock) to the record after *)
(* the call, so that a wrapped operation is the composition the code       *)
(* performs.  Time is the value of time.time(), in seconds.                *)
(***************************************************************************)
EXTENDS Integers, Sequences, FiniteSets, TLC

VARIABLES
    now,        \* time.time()
    focus,      \* the backend instance the API-level specifications drive
    crawlers,   \* CrawlerManager.crawlers: layer -> backend record
    last,       \* the last call made on a backend and what it returned
    streak,     \* failures recorded on the focus backend since its last recorded success
    opened_at,  \* the time of the focus backend's last open_circuit, -1 when none since
    mgr,        \* the CrawlerManager: its counters and the fallback call in progress
    init_failed, \* an initialize() of the focus backend has raised, no direct call since
    clients,    \* api_deploy.py: the requests POST /api/v6/search is serving
    mq,         \* the search_wo_numbers_multi_query call in progress
    run,        \* the V6LayeredOrchestrator.search call in progress
    retry       \* services/: the retry loop of a stealth crawler in progress

bvars == <<now, focus, crawlers, last, streak, opened_at>>
vars == <<now, focus, crawlers, last, streak, opened_at, init_failed, clients, mgr, mq, run, retry>>

----------------------------------------------------------------------------
(* Bounds of the model *)

MaxTime == 900
TimeStep == 300
MaxRequests == 5
MaxBackendRequests == 3
MaxCalls == 2
MaxAttempts == 4
MaxQueries == 3
MaxDevCodes == 1
MaxTitles == 1
MaxClients == 2
MaxWoNumbers == 11
MaxOverflow == 2
MaxSearches == 4
MaxTurns == 5

----------------------------------------------------------------------------
(* base_crawler.py *)

Layers == {"PLAYWRIGHT", "HTTPX", "SELENIUM"}

READY == "ready"
CIRCUIT_OPEN == "circuit_open"
FAILED == "failed"

max_failures == 3
circuit_cooldown == 300
max_request_time_samples == 100

\* BaseCrawler.__init__ (subclass fields are added by the subclass __init__)
BaseInit ==
    [ status               |-> READY,
      consecutive_failures |-> 0,
      circuit_open_until   |-> 0,
      metrics              |-> [ total_requests      |-> 0,
                                 successful_requests |-> 0,
                                 failed_requests     |-> 0,
                                 blocked_requests    |-> 0 ],
      request_times        |-> <<>>,
      session              |-> {},
      session_start_time   |-> 0,
      requests_in_session  |-> 0 ]

\* is_available, line 66: the cooldown test
InCooldown(b, t) == t < b.circuit_open_until

\* is_available, lines 69-73: the recovery of an open circuit
recover(b) ==
    IF b.status = CIRCUIT_OPEN
    THEN [b EXCEPT !.status = READY, !.consecutive_failures = 0]
    ELSE b

\* is_available: the backend after the call, and the value returned
is_available_optimistic(b, t) == [b |-> b, ret |-> TRUE]
is_available(b, t) ==
    IF InCooldown(b, t)
    THEN [b |-> b, ret |-> FALSE]
    ELSE [b |-> recover(b), ret |-> recover(b).status # FAILED]

\* record_success, lines 83-85: the response-time window
request_times_unbounded(request_times, response_time) == Append(request_times, response_time)
request_times_append(request_times, response_time) ==
    LET appended == Append(request_times, response_time)
    IN  IF Len(appended) > max_request_time_samples THEN Tail(appended) ELSE appended

\* record_success (total_time and avg_response_time, the sum and the mean of
\* the samples, are not kept)
record_success_keeps_counter(b, response_time) ==
    [b EXCEPT !.metrics.total_requests = @ + 1,
              !.metrics.successful_requests = @ + 1,
              !.request_times = request_times_append(@, response_time),
              !.status = READY]
record_success(b, response_time) ==
    [b EXCEPT !.metrics.total_requests = @ + 1,
              !.metrics.successful_requests = @ + 1,
              !.request_times = request_times_append(@, response_time),
              !.consecutive_failures = 0,
              !.status = READY]

\* open_circuit
open_circuit(b, t) ==
    [b EXCEPT !.circuit_open_until = t + circuit_cooldown,
              !.status = CIRCUIT_OPEN]

\* record_failure, line 104: the threshold test
threshold_reached_early(failures) == failures >= max_failures - 1
threshold_reached(failures) == failures >= max_failures

\* record_failure, lines 95-101: the counters (and mutants: only the total is
\* counted; a blocked request is counted as blocked and not as failed)
count_failure_total_only(b, is_block) ==
    [b EXCEPT !.metrics.total_requests = @ + 1,
              !.metrics.blocked_requests = IF is_block THEN @ + 1 ELSE @,
              !.consecutive_failures = @ + 1]
count_failure_block_apart(b, is_block) ==
    [b EXCEPT !.metrics.total_requests = @ + 1,
              !.metrics.failed_requests = IF is_block THEN @ ELSE @ + 1,
              !.metrics.blocked_requests = IF is_block THEN @ + 1 ELSE @,
              !.consecutive_failures = @ + 1]
count_failure(b, is_block) ==
    [b EXCEPT !.metrics.total_requests = @ + 1,
              !.metrics.failed_requests = @ + 1,
              !.metrics.blocked_requests = IF is_block THEN @ + 1 ELSE @,
              !.consecutive_failures = @ + 1]

\* record_failure
record_failure(b, t, is_block) ==
    LET c == count_failure(b, is_block)
    IN  IF threshold_reached(c.consecutive_failures) THEN open_circuit(c, t) ELSE c

----------------------------------------------------------------------------
(* Identifiers.  A patent number is the text the code handles; the model    *)
(* keeps its parts: the prefix as written, the separator after it, the two   *)
(* digit groups and the separator between them.                              *)

Ident(pre, sep1, year, sep2, num) ==
    [pre |-> pre, sep1 |-> sep1, year |-> year, sep2 |-> sep2, num |-> num]

\* str.upper() on the prefix
Upper(pre) == IF pre \in {"wo", "Wo", "wO", "WO"} THEN "WO" ELSE pre

\* v6_layered_orchestrator.py: number.upper().replace(' ', '').replace('-', '')
Strip(sep) == IF sep \in {" ", "-"} THEN "" ELSE sep
Normalize(id) ==
    [id EXCEPT !.pre = Upper(id.pre), !.sep1 = Strip(id.sep1), !.sep2 = Strip(id.sep2)]

\* _extract_wo_numbers: f"WO{year}{number}" for every match, as a set
wo_of_match_as_written(m) == m
wo_of_match(m) == Ident("WO", "", m.year, "", m.num)

\* The order of sorted() on the texts f"WO{year}{number}" (fixed width digits)
Before(a, b) == a.year < b.year \/ (a.year = b.year /\ a.num < b.num)

RECURSIVE sorted(_)
sorted(S) ==
    IF S = {} THEN <<>>
    ELSE LET m == CHOOSE x \in S : \A y \in S \ {x} : Before(x, y) \/ ~Before(y, x)
         IN  <<m>> \o sorted(S \ {m})

\* list[:n]
Prefix(seq, n) == SubSeq(seq, 1, IF n < Len(seq) THEN n ELSE Len(seq))

_extract_wo_numbers(page) == sorted({ wo_of_match(m) : m \in page })

Range(seq) == { seq[i] : i \in DOMAIN seq }

----------------------------------------------------------------------------
(* playwright_crawler.py, httpx_crawler.py, selenium_crawler.py             *)

Name(l) ==
    CASE l = "PLAYWRIGHT" -> "Playwright"
      [] l = "HTTPX"      -> "HTTPX"
      [] l = "SELENIUM"   -> "Selenium"

\* The session resources of a backend, in the order initialize acquires them
Handles(l) ==
    CASE l = "PLAYWRIGHT" -> <<"playwright", "browser", "context", "page">>
      [] l = "HTTPX"      -> <<"client">>
      [] l = "SELENIUM"   -> <<"driver">>

\* The handle initialize tests before doing anything
Guard(l) ==
    CASE l = "PLAYWRIGHT" -> "browser"
      [] l = "HTTPX"      -> "client"
      [] l = "SELENIUM"   -> "driver"

\* The handle the operations use
Worker(l) ==
    CASE l = "PLAYWRIGHT" -> "page"
      [] l = "HTTPX"      -> "client"
      [] l = "SELENIUM"   -> "driver"

\* The steps of initialize that can raise: the acquisitions, then the stealth script
InitSteps(l) ==
    CASE l = "PLAYWRIGHT" -> 5
      [] l = "HTTPX"      -> 1
      [] l = "SELENIUM"   -> 2

max_session_duration(l) == IF l = "HTTPX" THEN 300 ELSE 600
max_requests_per_session == 50

\* initialize; fail_at = 0: every step succeeds, k > 0: step k raises
initialize(l, b, t, fail_at) ==
    IF Guard(l) \in b.session THEN [b |-> b, raised |-> FALSE]
    ELSE IF fail_at = 0
    THEN [b |-> [b EXCEPT !.session = @ \cup Range(Handles(l)),
                          !.session_start_time = t,
                          !.requests_in_session = IF l = "HTTPX" THEN 0 ELSE @,
                          !.status = READY],
          raised |-> FALSE]
    ELSE [b |-> [b EXCEPT !.session = @ \cup Range(Prefix(Handles(l), fail_at - 1)),
                          !.status = FAILED],
          raised |-> TRUE]

\* cleanup closes the handles in order; fail = "none": every close succeeds,
\* else closing that handle raises:
\* the handles closed before it are cleared, the error is logged and swallowed;
\* and mutant: the breaker is reset with the session
cleanup_resets(l, b, fail) ==
    [b EXCEPT !.session = {}, !.consecutive_failures = 0, !.circuit_open_until = 0]
cleanup(l, b, fail) ==
    LET order == CASE l = "PLAYWRIGHT" -> <<"page", "context", "browser", "playwright">>
                   [] l = "HTTPX"      -> <<"client">>
                   [] l = "SELENIUM"   -> <<"driver">>
        stop  == IF fail \in b.session
                 THEN CHOOSE i \in DOMAIN order : order[i] = fail
                 ELSE Len(order) + 1
    IN  [b EXCEPT !.session = @ \ { order[i] : i \in 1..(stop - 1) }]

\* _check_session_age / _check_session_renewal: the test
should_renew(l, b, t) ==
    \/ t - b.session_start_time > max_session_duration(l)
    \/ l = "HTTPX" /\ b.requests_in_session >= max_requests_per_session

\* _check_session_age / _check_session_renewal
check_session(l, b, t, fail, fail_at) ==
    IF should_renew(l, b, t)
    THEN initialize(l, cleanup(l, b, fail), t, fail_at)
    ELSE [b |-> b, raised |-> FALSE]

Ops == {"search_patents", "get_patent_details", "get_br_patents_from_wo"}

\* Returned values: a list, a dict (one entry stands for its fields) or None
List(items) == [kind |-> "list", items |-> items]
None == [kind |-> "None", items |-> <<>>]

\* What an operation returns when it has nothing: [] or None
Empty(op) == IF op = "get_patent_details" THEN None ELSE List(<<>>)

\* Python truth of a returned value
Truthy(v) == v.kind # "None" /\ Len(v.items) > 0

Body(effect, reqs, result) == [effect |-> effect, reqs |-> reqs, result |-> result]

BRLists == { List(<<>>), List(<<Ident("BR", "", 1120, "", 13001234)>>) }

\* _parse_patent_details never returns an empty dict
Details == { [kind |-> "dict", items |-> <<"page">>] }

\* What a search returns: the numbers extracted from a result page, which may
\* hold matches of WO[\s-]?(\d{4})[\s/]?(\d{6}) in any case, cut to a limit
SearchResults ==
    { List(Prefix(_extract_wo_numbers(page), n))
      : page \in SUBSET { Ident("WO", "", 2016, "", 140201),
                          Ident("wo", "-", 2016, "/", 140201),
                          Ident("Wo", " ", 2011, " ", 140324) },
        n \in {1, 2} }

\* What the body of an operation (after the session is ready) can do:
\*   effect  "failure": an exception or a bad status, record_failure()
\*           "block":   a blocked page, record_failure(is_block=True)
\*           "success": record_success(), the result is returned
\*           "none":    the result could not be clicked; nothing is recorded
\*   reqs    the HTTP requests counted in requests_in_session
Bodies(l, op) ==
    IF l = "HTTPX"
    THEN CASE op = "search_patents" ->
                {Body("failure", 0, List(<<>>)), Body("failure", 1, List(<<>>)), Body("block", 1, List(<<>>))}
                \cup { Body("success", 1, r) : r \in SearchResults }
           [] op = "get_patent_details" ->
                {Body("failure", 0, None), Body("failure", 1, None), Body("failure", 2, None)}
                \cup { Body("success", n, d) : n \in {1, 2}, d \in Details }
           [] op = "get_br_patents_from_wo" ->
                {Body("failure", 0, List(<<>>)), Body("failure", 1, List(<<>>))}
                \cup { Body("success", 1, r) : r \in BRLists }
    ELSE CASE op = "search_patents" ->
                {Body("failure", 0, List(<<>>)), Body("block", 0, List(<<>>))}
                \cup { Body("success", 0, r) : r \in SearchResults }
           [] op = "get_patent_details" ->
                {Body("failure", 0, None), Body("none", 0, None)}
                \cup { Body("success", 0, d) : d \in Details }
           [] op = "get_br_patents_from_wo" ->
                {Body("failure", 0, List(<<>>)), Body("none", 0, List(<<>>))}
                \cup { Body("success", 0, r) : r \in BRLists }

\* The environment of one wrapped operation: where initialize fails (0: nowhere),
\* which close fails in a renewal, where the renewal's initialize fails, the body
Env(init, cfail, renew, body) ==
    [init |-> init, cfail |-> cfail, renew |-> renew, body |-> body]

\* The body of a wrapped operation on a ready session.  Without the handle the
\* operations use (an initialize that failed midway left the guard set), the
\* first use of it raises.  response_time is time.time() - start_time: 0, the
\* clock does not move inside an operation.
run_body(l, op, b, t, body) ==
    IF Worker(l) \notin b.session
    THEN [b |-> record_failure(b, t, FALSE), ret |-> Empty(op)]
    ELSE LET c == [b EXCEPT !.requests_in_session = @ + body.reqs]
         IN  CASE body.effect = "failure" ->
                    [b |-> record_failure(c, t, FALSE), ret |-> Empty(op)]
               [] body.effect = "block" ->
                    [b |-> record_failure(c, t, TRUE), ret |-> Empty(op)]
               [] body.effect = "success" ->
                    [b |-> record_success(c, 0), ret |-> body.result]
               [] body.effect = "none" ->
                    [b |-> c, ret |-> Empty(op)]

\* search_patents, get_patent_details, get_br_patents_from_wo of a backend:
\* availability check, initialize, session check, body; every exception is
\* caught and recorded as a failure
wrapped(l, op, b, t, env) ==
    LET a == is_available(b, t)
        i == initialize(l, a.b, t, env.init)
        r == check_session(l, i.b, t, env.cfail, env.renew)
    IN  IF ~a.ret THEN [b |-> a.b, ret |-> Empty(op)]
        ELSE IF i.raised THEN [b |-> record_failure(i.b, t, FALSE), ret |-> Empty(op)]
        ELSE IF r.raised THEN [b |-> record_failure(r.b, t, FALSE), ret |-> Empty(op)]
        ELSE run_body(l, op, r.b, t, env.body)

\* Whether an initialize() raises inside the operation: at first use or in a
\* session renewal
initialize_raised(l, b, t, env) ==
    LET a == is_available(b, t)
        i == initialize(l, a.b, t, env.init)
        r == check_session(l, i.b, t, env.cfail, env.renew)
    IN  a.ret /\ (i.raised \/ r.raised)

\* The environments that differ in what the operation does in state b at time t
InitChoices(l, b) == IF Guard(l) \in b.session THEN {0} ELSE 0..InitSteps(l)

CloseChoices(l, b) == {"none"} \cup b.session

Envs(l, op, b, t) ==
    LET a == is_available(b, t)
    IN  IF ~a.ret THEN { Env(0, "none", 0, Body("none", 0, Empty(op))) }
        ELSE UNION { LET i == initialize(l, a.b, t, init)
                     IN  IF i.raised
                         THEN { Env(init, "none", 0, Body("none", 0, Empty(op))) }
                         ELSE IF should_renew(l, i.b, t)
                         THEN UNION { { IF initialize(l, cleanup(l, i.b, cfail), t, renew).raised
                                        THEN Env(init, cfail, renew, Body("none", 0, Empty(op)))
                                        ELSE Env(init, cfail, renew, body)
                                        : renew \in InitChoices(l, cleanup(l, i.b, cfail)),
                                          body \in Bodies(l, op) }
                                      : cfail \in CloseChoices(l, i.b) }
                         ELSE { Env(init, "none", 0, body) : body \in Bodies(l, op) }
                     : init \in InitChoices(l, a.b) }

\* Whether the operation gets as far as fetching its page: the backend is
\* available, initialize and the session check have not raised, and the
\* handle the operation uses is there
fetches(l, op, b, t, env) ==
    LET a == is_available(b, t)
        i == initialize(l, a.b, t, env.init)
        r == check_session(l, i.b, t, env.cfail, env.renew)
    IN  a.ret /\ ~i.raised /\ ~r.raised /\ Worker(l) \in r.b.session

\* What the body of an operation does when the page it fetched is a block
\* page.  The searches test _detect_block.  The other operations of the
\* browser backends wait for a search-result-item, which a block page does not
\* have, and return in the inner except.  Those of HTTPX test only the status:
\* get_br_patents_from_wo skips the parsing of a response that is not 200 and
\* records a success; get_patent_details falls through both requests.
BlockedBodies(l, op) ==
    IF op = "search_patents" THEN { body \in Bodies(l, op) : body.effect = "block" }
    ELSE IF l # "HTTPX" THEN { Body("none", 0, Empty(op)) }
    ELSE IF op = "get_br_patents_from_wo" THEN { Body("success", 1, List(<<>>)) }
    ELSE { Body("failure", 2, None) }

----------------------------------------------------------------------------
(* crawler_manager.py                                                       *)

\* TargetSite
TargetSites == {"google_patents", "wipo", "inpi"}

\* CrawlerManager.__init__: the chain of a target in self.strategies
strategies(target) ==
    IF target = "google_patents"
    THEN <<"PLAYWRIGHT", "SELENIUM", "HTTPX">>
    ELSE <<"HTTPX", "PLAYWRIGHT", "SELENIUM">>

\* What a backend operation hands back to the manager when it raises
Raised == [kind |-> "raised", items |-> <<>>]

\* The (result, layer_used) pair a fallback call returns
Pair(result, name) == [result |-> result, name |-> name]

NoPair == Pair(None, "")

\* CrawlerManager.__init__: the strategy table and the counters; with them
\* the fallback call in progress: its position (pc, op, target, idx), what
\* it returned (ret) and its history (the layers skipped, the layers invoked
\* in order, what each invoked layer handed back, total_failures when the
\* call began)
ManagerInit ==
    [ strategies      |-> [target \in TargetSites |-> strategies(target)],
      total_requests  |-> 0,
      total_successes |-> 0,
      total_failures  |-> 0,
      layer_usage     |-> [l \in Layers |-> 0],
      layer_successes |-> [l \in Layers |-> 0],
      pc              |-> "idle",
      op              |-> "search_patents",
      target          |-> "google_patents",
      idx             |-> 1,
      ret             |-> NoPair,
      calls           |-> 0,
      skipped         |-> {},
      invoked         |-> <<>>,
      returned        |-> <<>>,
      failures_before |-> 0 ]

\* The entry of search_wo_numbers / get_patent_details / get_br_patents_from_wo
begin(m, op, target) ==
    [m EXCEPT !.pc = "loop", !.op = op, !.target = target, !.idx = 1,
              !.ret = NoPair, !.calls = @ + 1, !.skipped = {},
              !.invoked = <<>>, !.returned = <<>>,
              !.failures_before = m.total_failures]

\* `continue` after `if not crawler.is_available()`, and mutant: the layer
\* passed over goes to the end of the chain
skip_demotes(m, l) ==
    [m EXCEPT !.idx = @ + 1, !.skipped = @ \cup {l},
              !.strategies[m.target] = SelectSeq(@, LAMBDA x : x # l) \o <<l>>]
skip(m, l) == [m EXCEPT !.idx = @ + 1, !.skipped = @ \cup {l}]

\* The counters moved before the operation of layer l is awaited, and mutant:
\* the usage of the layer is not counted
count_attempt_unused(m, l) ==
    [m EXCEPT !.total_requests = IF m.op = "search_patents" THEN @ + 1 ELSE @,
              !.invoked = Append(@, l)]
count_attempt(m, l) ==
    [m EXCEPT !.total_requests = IF m.op = "search_patents" THEN @ + 1 ELSE @,
              !.layer_usage[l] = @ + 1,
              !.invoked = Append(@, l)]

\* `if wo_numbers:` / `if details:` / `if br_patents:`
accepted_whatever(result) == TRUE
accepted(result) == Truthy(result)

\* `except Exception as e:` around the awaited operation
caught_never(exc) == FALSE
caught(exc) == exc = "Exception"

\* The rest of a turn of the loop once the awaited operation of layer l is
\* over; out is what it did: out.raised, or the value out.ret
complete(c, l, out) ==
    IF out.raised
    THEN IF caught("Exception")
         THEN [c EXCEPT !.idx = @ + 1, !.returned = Append(@, Raised)]
         ELSE [c EXCEPT !.pc = "raised", !.returned = Append(@, Raised)]
    ELSE IF accepted(out.ret)
    THEN [c EXCEPT !.total_successes = IF c.op = "search_patents" THEN @ + 1 ELSE @,
                   !.layer_successes[l] = @ + 1,
                   !.returned = Append(@, out.ret),
                   !.ret = Pair(out.ret, Name(l)),
                   !.pc = "done"]
    ELSE [c EXCEPT !.idx = @ + 1, !.returned = Append(@, out.ret)]

\* One turn of the loop for an available layer l
attempt(m, l, out) == complete(count_attempt(m, l), l, out)

\* The manager is shared by the calls in progress: its counters are one, the
\* position of each call is its own.  Frame: a call's own part (its history
\* is not kept); Counters: the manager with the counters of r; Joined: the
\* manager as call f sees it
Frame(r) ==
    [r EXCEPT !.total_requests = 0, !.total_successes = 0, !.total_failures = 0,
              !.layer_usage = [l \in Layers |-> 0],
              !.layer_successes = [l \in Layers |-> 0],
              !.skipped = {}, !.invoked = <<>>, !.returned = <<>>,
              !.failures_before = 0]

Counters(m, r) ==
    [m EXCEPT !.total_requests = r.total_requests,
              !.total_successes = r.total_successes,
              !.total_failures = r.total_failures,
              !.layer_usage = r.layer_usage,
              !.layer_successes = r.layer_successes]

Joined(m, f) == Counters(f, m)

\* After the loop: only search_wo_numbers counts the failed call; and mutant:
\* the empty result is returned under the name of the last layer of the chain
exhausted_names_last(m) ==
    [m EXCEPT !.total_failures = IF m.op = "search_patents" THEN @ + 1 ELSE @,
              !.ret = Pair(Empty(m.op), Name(m.strategies[m.target][Len(m.strategies[m.target])])),
              !.pc = "done"]
exhausted(m) ==
    [m EXCEPT !.total_failures = IF m.op = "search_patents" THEN @ + 1 ELSE @,
              !.ret = Pair(Empty(m.op), "none"),
              !.pc = "done"]

\* What the awaited operation of layer l can do in the manager's runs: one of
\* the concrete backends under an environment in which a renewal goes through
\* and a page is not a block page, or one of the faults allowed: "initialize",
\* a fresh initialize that fails at its first step; "raise", an implementation
\* of the abstract BaseCrawler operation that raises (the three concrete ones
\* catch every Exception)
MgrEnvs(l, op, b, t, faults) ==
    { e \in Envs(l, op, b, t) :
        /\ e.init \in (IF "initialize" \in faults THEN {0, 1} ELSE {0})
        /\ e.cfail = "none"
        /\ e.renew = 0
        /\ e.body.effect # "block"
        /\ e.body.effect = "failure" => e.body.reqs = 0
        /\ e.body.reqs <= 1 }

Outcome(b, ret, raised) == [b |-> b, ret |-> ret, raised |-> raised]

Outcomes(l, op, b, t, faults) ==
    (IF "raise" \in faults THEN { Outcome(b, Empty(op), TRUE) } ELSE {})
    \cup { Outcome(wrapped(l, op, b, t, e).b, wrapped(l, op, b, t, e).ret, FALSE)
           : e \in MgrEnvs(l, op, b, t, faults) }

\* search_wo_numbers_multi_query: the names layer_usage_count can hold
LayerNames == { Name(l) : l \in Layers } \cup {"none"}

RECURSIVE SeqsUpTo(_, _)
SeqsUpTo(S, n) ==
    IF n = 0 THEN { <<>> }
    ELSE SeqsUpTo(S, n - 1)
         \cup { Append(q, x) : q \in { r \in SeqsUpTo(S, n - 1) : Len(r) = n - 1 }, x \in S }

\* The state of a search_wo_numbers_multi_query call: the queries, the loop
\* index, all_wo_numbers, layer_usage_count (a name that is not a key counts
\* 0), the returned pair, and its history (what each query's search returned,
\* the indexes of the queries whose search was entered, the delays awaited)
MultiQueryInit ==
    [ pc                |-> "idle",
      queries           |-> <<>>,
      target            |-> "google_patents",
      i                 |-> 1,
      all_wo_numbers    |-> {},
      layer_usage_count |-> [n \in LayerNames |-> 0],
      unique_list       |-> <<>>,
      results           |-> <<>>,
      started           |-> <<>>,
      slept             |-> 0 ]

mq_begin(queries, target) ==
    [MultiQueryInit EXCEPT !.pc = "loop", !.queries = queries, !.target = target]

\* The body of the loop after search_wo_numbers has returned pair, and mutant:
\* only the queries a backend answered are counted
mq_collect_answered(q, pair) ==
    [q EXCEPT !.layer_usage_count[pair.name] = IF pair.name = "none" THEN @ ELSE @ + 1,
              !.all_wo_numbers = @ \cup Range(pair.result.items),
              !.results = Append(@, pair.result.items),
              !.pc = "sleep"]
mq_collect(q, pair) ==
    [q EXCEPT !.layer_usage_count[pair.name] = @ + 1,
              !.all_wo_numbers = @ \cup Range(pair.result.items),
              !.results = Append(@, pair.result.items),
              !.pc = "sleep"]

\* await asyncio.sleep(0.5) has returned: the next turn of the loop
mq_slept(q) == [q EXCEPT !.slept = @ + 1, !.i = @ + 1, !.pc = "loop"]

\* The loop is at the head of a turn with a query left, and mutant: a turn
\* starts while the previous one is still awaiting
for_query_eager(q) == q.pc \in {"loop", "wait", "sleep"} /\ q.i <= Len(q.queries)

\* for i, query in enumerate(queries, 1): the loop is at the head of a turn
for_query(q) == q.pc = "loop" /\ q.i <= Len(q.queries)

\* await self.search_wo_numbers(query, ...) is entered
mq_search(q) == [q EXCEPT !.started = Append(@, q.i), !.pc = "wait"]

\* sorted(list(all_wo_numbers)) and the return
mq_finish(q) == [q EXCEPT !.unique_list = sorted(q.all_wo_numbers), !.pc = "done"]

\* CrawlerManager.crawlers.values(): the order the layers were inserted in
crawler_values == <<"PLAYWRIGHT", "HTTPX", "SELENIUM">>

\* f"{x:.1f}%" of num / den * 100: the percentage in tenths, rounded half to even
Percent(num, den) ==
    LET q == (1000 * num) \div den
        r == (1000 * num) % den
    IN  IF 2 * r > den \/ (2 * r = den /\ q % 2 = 1) THEN q + 1 ELSE q

\* BaseCrawler.get_success_rate
get_success_rate(b) ==
    IF b.metrics.total_requests = 0 THEN 0
    ELSE Percent(b.metrics.successful_requests, b.metrics.total_requests)

Max(a, b) == IF a > b THEN a ELSE b

\* The dict BaseCrawler.get_metrics builds
metrics_dict(l, b, t) ==
    [ name            |-> Name(l),
      layer           |-> l,
      status          |-> b.status,
      success_rate    |-> get_success_rate(b),
      metrics         |-> b.metrics,
      circuit_breaker |-> [ consecutive_failures |-> b.consecutive_failures,
                            is_open              |-> b.status = CIRCUIT_OPEN,
                            cooldown_remaining   |-> Max(0, b.circuit_open_until - t) ] ]

\* BaseCrawler.get_metrics: the backend after the call and the dict returned,
\* and mutant: the dict is built after the recovery is_available() performs
get_metrics_recovering(l, b, t) == [b |-> is_available(b, t).b, ret |-> metrics_dict(l, b, t)]

get_metrics(l, b, t) == [b |-> b, ret |-> metrics_dict(l, b, t)]

\* CrawlerManager.get_all_metrics: the returned dict, and the manager and the
\* backends after the call
get_all_metrics(m, cs, t) ==
    [ m   |-> m,
      cs  |-> [l \in Layers |-> get_metrics(l, cs[l], t).b],
      ret |-> [ manager |-> [ total_requests  |-> m.total_requests,
                              total_successes |-> m.total_successes,
                              total_failures  |-> m.total_failures,
                              success_rate    |-> Percent(m.total_successes, Max(1, m.total_requests)),
                              layer_usage     |-> m.layer_usage,
                              layer_successes |-> m.layer_successes ],
                layers  |-> [l \in Layers |-> get_metrics(l, cs[l], t).ret] ] ]

\* The loop of a fallback call run to its return: bodies[l] is what the body
\* of layer l's operation does if it gets to run
RECURSIVE fallback_loop(_, _, _, _)
fallback_loop(m, cs, t, bodies) ==
    IF m.pc # "loop" THEN [m |-> m, cs |-> cs]
    ELSE IF m.idx > Len(m.strategies[m.target]) THEN [m |-> exhausted(m), cs |-> cs]
    ELSE LET l == m.strategies[m.target][m.idx]
             a == is_available(cs[l], t)
             w == wrapped(l, m.op, a.b, t, Env(0, "none", 0, bodies[l]))
         IN  IF ~a.ret
             THEN fallback_loop(skip(m, l), [cs EXCEPT ![l] = a.b], t, bodies)
             ELSE fallback_loop(attempt(m, l, Outcome(w.b, w.ret, FALSE)),
                                [cs EXCEPT ![l] = w.b], t, bodies)

\* search_wo_numbers / get_patent_details / get_br_patents_from_wo, whole
fallback(m, cs, t, op, target, bodies) == fallback_loop(begin(m, op, target), cs, t, bodies)

\* search_wo_numbers_multi_query, whole: serve[i] is bodies for query i
RECURSIVE multi_query_loop(_, _, _, _, _)
multi_query_loop(q, m, cs, t, serve) ==
    IF for_query(q)
    THEN LET f == fallback(m, cs, t, "search_patents", q.target, serve[q.i])
         IN  multi_query_loop(mq_slept(mq_collect(mq_search(q), f.m.ret)), f.m, f.cs, t, serve)
    ELSE [q |-> mq_finish(q), m |-> m, cs |-> cs]

search_wo_numbers_multi_query(queries, target, m, cs, t, serve) ==
    multi_query_loop(mq_begin(queries, target), m, cs, t, serve)

\* What the layers do in one fallback call of a run: layer w succeeds with
\* result, every other layer that gets to run fails; or all of them fail
Success(l, result) == Body("success", IF l = "HTTPX" THEN 1 ELSE 0, result)

Serves(op, results) ==
    { [l \in Layers |-> Body("failure", 0, Empty(op))] }
    \cup { [l \in Layers |-> IF l = w THEN Success(l, result) ELSE Body("failure", 0, Empty(op))]
            : w \in Layers, result \in results }

----------------------------------------------------------------------------
(* services/v6_layered_orchestrator.py                                      *)

NoBrand == "None"
NoCas == "None"

\* What get_molecule_data gives: a dict with 'dev_codes' and 'cas', or an exception
PubChemData(dev_codes, cas) == [dev_codes |-> dev_codes, cas |-> cas]
PubChemOutcomes ==
    { [kind |-> "raise", data |-> PubChemData(<<>>, NoCas)] }
    \cup { [kind |-> "ok", data |-> PubChemData(d, "1297538-32-9")]
           : d \in SeqsUpTo({"ODM-201"}, MaxDevCodes) }

\* _get_pubchem_data: the default dict when get_molecule_data raises
_get_pubchem_data(outcome) ==
    IF outcome.kind = "raise" THEN PubChemData(<<>>, NoCas) ELSE outcome.data

\* _build_wo_queries: a query text is told by its kind and its argument
Query(kind, arg) == [kind |-> kind, arg |-> arg]
years == <<"2016", "2018", "2019", "2020", "2021", "2022", "2023">>
companies == <<"Orion", "Bayer", "Pfizer", "Roche", "Novartis", "Merck">>
_build_wo_queries(molecule_name, dev_codes, cas) ==
    [k \in DOMAIN years |-> Query(molecule_name, years[k])]
    \o [k \in DOMAIN Prefix(companies, 3) |-> Query(molecule_name, companies[k])]
    \o [k \in DOMAIN Prefix(dev_codes, 5) |-> Query("dev_code", dev_codes[k])]
    \o (IF cas # NoCas THEN <<Query("cas", cas)>> ELSE <<>>)

\* _discover_wo_numbers: the dict built from what the multi-query search returned
wo_data(queries, q) ==
    [ wo_numbers   |-> q.unique_list,
      queries_used |-> Len(queries),
      layer_usage  |-> q.layer_usage_count,
      total_found  |-> Len(q.unique_list) ]

\* _convert_wo_to_br: the records of one WO number, and mutant: the record
\* carries the tag of the direct search
FamilyRecord_inpi_tag(br_patent, wo_number, layer_used) ==
    [number |-> br_patent, source_wo |-> wo_number, source |-> "inpi_molecule", layer |-> layer_used]

FamilyRecord(br_patent, wo_number, layer_used) ==
    [number |-> br_patent, source_wo |-> wo_number, source |-> "wo_family", layer |-> layer_used]

\* _search_inpi_direct: what the INPI API answers to one GET: an exception, a
\* status other than 200, or 200 with the titles of data['data']
INPIResponses ==
    { [kind |-> "raise", titles |-> <<>>], [kind |-> "status", titles |-> <<>>] }
    \cup { [kind |-> "ok", titles |-> s]
           : s \in SeqsUpTo({ Ident("BR", "", 1120, "", 15005678),
                               Ident("BR", " ", 1120, " ", 13001234) }, MaxTitles) }

\* title.startswith('BR') and title.replace(' ', '-')
startswith_BR(title) == title.pre = "BR"
Dash(sep) == IF sep = " " THEN "-" ELSE sep

INPIRecord(title, source) ==
    [number |-> [title EXCEPT !.sep1 = Dash(@), !.sep2 = Dash(@)], source |-> source, layer |-> "inpi_api"]

\* The molecule search: every title that starts with BR gives a record
RECURSIVE molecule_records(_)
molecule_records(titles) ==
    IF titles = <<>> THEN <<>>
    ELSE (IF startswith_BR(Head(titles)) THEN <<INPIRecord(Head(titles), "inpi_molecule")>> ELSE <<>>)
         \o molecule_records(Tail(titles))

\* The brand search: a title whose number is already in br_patents is left out
RECURSIVE brand_records(_, _)
brand_records(br_patents, titles) ==
    IF titles = <<>> THEN br_patents
    ELSE LET rec == INPIRecord(Head(titles), "inpi_brand")
             dup == \E i \in DOMAIN br_patents : br_patents[i].number = rec.number
         IN  brand_records(IF startswith_BR(Head(titles)) /\ ~dup
                           THEN Append(br_patents, rec) ELSE br_patents,
                           Tail(titles))

inpi_data(br_patents) == [br_patents |-> br_patents, total_found |-> Len(br_patents)]

_search_inpi_direct(brand_name, molecule_response, brand_response) ==
    LET found == IF molecule_response.kind = "ok"
                 THEN molecule_records(molecule_response.titles) ELSE <<>>
    IN  IF molecule_response.kind = "raise" THEN inpi_data(<<>>)
        ELSE IF brand_name = NoBrand \/ brand_response.kind # "ok" THEN inpi_data(found)
        ELSE inpi_data(brand_records(found, brand_response.titles))

\* _deduplicate_br_patents: the first record of every normalized number
RECURSIVE unique_patents(_, _)
unique_patents(seen, all_patents) ==
    IF all_patents = <<>> THEN <<>>
    ELSE LET patent_num == Normalize(Head(all_patents).number)
         IN  IF patent_num \notin seen
             THEN <<Head(all_patents)>> \o unique_patents(seen \cup {patent_num}, Tail(all_patents))
             ELSE unique_patents(seen, Tail(all_patents))

_deduplicate_br_patents_concat(wo_br_patents, inpi_br_patents) == wo_br_patents \o inpi_br_patents
_deduplicate_br_patents(wo_br_patents, inpi_br_patents) ==
    unique_patents({}, wo_br_patents \o inpi_br_patents)

\* _count_by_source
_count_by_source(br_patents) ==
    [s \in { br_patents[i].source : i \in DOMAIN br_patents } |->
        Cardinality({ i \in DOMAIN br_patents : br_patents[i].source = s })]

\* results = {...} at the entry of search: {} for every sub-result
EmptyDict == <<>>
ResultsInit ==
    [ molecule_info       |-> EmptyDict,
      wo_discovery        |-> EmptyDict,
      wo_to_br_conversion |-> EmptyDict,
      inpi_search         |-> EmptyDict,
      br_patents          |-> <<>>,
      summary             |-> EmptyDict,
      statistics          |-> EmptyDict,
      execution_time      |-> 0 ]

\* results[key] = value, and mutant: the assignment is left out
store_nothing(results, key, value) == results
store(results, key, value) == [results EXCEPT ![key] = value]

\* One call of V6LayeredOrchestrator.search: where it is (pc), its arguments,
\* its locals, the dict it returns, and its history: the operations it has
\* started in order, the phases in which something raised, what the layers
\* did for the first query and for the others, the pairs the conversions got,
\* how often cleanup() was awaited on each backend, whose cleanup() raised
RunInit ==
    [ pc             |-> "idle",
      molecule_name  |-> "darolutamide",
      brand_name     |-> NoBrand,
      start_time     |-> 0,
      results        |-> ResultsInit,
      pubchem_data   |-> EmptyDict,
      wo_data        |-> EmptyDict,
      i              |-> 1,
      all_br_patents |-> <<>>,
      successful     |-> 0,
      failed         |-> 0,
      inpi_data      |-> EmptyDict,
      cleanup_i      |-> 1,
      returned       |-> FALSE,
      started        |-> <<>>,
      raised         |-> {},
      serve          |-> <<>>,
      pairs          |-> <<>>,
      cleaned        |-> [l \in Layers |-> 0],
      cleanup_raised |-> {} ]

\* Phase 1
run_pubchem(r, outcome) ==
    LET pubchem_data == _get_pubchem_data(outcome)
    IN  [r EXCEPT !.started = Append(@, "pubchem"),
                  !.raised = IF outcome.kind = "raise" THEN @ \cup {"pubchem"} ELSE @,
                  !.pubchem_data = pubchem_data,
                  !.results = store(@, "molecule_info", pubchem_data),
                  !.pc = "discover"]

\* Phase 2, q the multi-query search as it returned
run_discover(r, queries, q, serve) ==
    [r EXCEPT !.started = Append(@, "discover"),
              !.serve = serve,
              !.wo_data = wo_data(queries, q),
              !.results = store(@, "wo_discovery", wo_data(queries, q)),
              !.pc = "convert"]

\* Phase 3: `if not wo_numbers:` and the end of the loop, the dict returned
wo_to_br_data(r) ==
    [ br_patents             |-> r.all_br_patents,
      successful_conversions |-> r.successful,
      failed_conversions     |-> r.failed ]

\* Phase 3: one turn of the loop, pair what get_br_patents_from_wo returned
run_convert_turn(r, pair) ==
    LET wo_number == r.wo_data.wo_numbers[r.i]
        c == [r EXCEPT !.started = Append(@, "convert"), !.pairs = Append(@, pair), !.i = @ + 1]
    IN  IF Truthy(pair.result)
        THEN [c EXCEPT !.successful = @ + 1,
                       !.all_br_patents =
                           @ \o [k \in DOMAIN pair.result.items |->
                                   FamilyRecord(pair.result.items[k], wo_number, pair.name)]]
        ELSE [c EXCEPT !.failed = @ + 1]

\* `except Exception as e:` of search: the error is stored, results returned
run_except(r, e, t) ==
    [r EXCEPT !.started = Append(@, e),
              !.raised = @ \cup {e},
              !.results = [("error" :> e) @@ @ EXCEPT !.execution_time = t - r.start_time],
              !.pc = "cleanup"]

\* Phase 4, and mutant: what the direct search meets leaves the phase
run_inpi_aborts(r, molecule_response, brand_response) == run_except(r, "inpi", r.start_time)
run_inpi(r, molecule_response, brand_response) ==
    LET data == _search_inpi_direct(r.brand_name, molecule_response, brand_response)
    IN  [r EXCEPT !.started = Append(@, "inpi"),
                  !.raised = IF "raise" \in {molecule_response.kind,
                                              IF r.brand_name = NoBrand \/ molecule_response.kind = "raise"
                                              THEN "ok" ELSE brand_response.kind}
                             THEN @ \cup {"inpi"} ELSE @,
                  !.inpi_data = data,
                  !.results = store(@, "inpi_search", data),
                  !.pc = "merge"]

\* Phase 5, the statistics, the summary and `return results`
run_merge(r, statistics, t) ==
    LET all_br_patents == _deduplicate_br_patents(wo_to_br_data(r).br_patents, r.inpi_data.br_patents)
        summary == [ total_wo_found |-> Len(r.wo_data.wo_numbers),
                     total_br_found |-> Len(all_br_patents),
                     wo_with_br     |-> r.successful,
                     inpi_found     |-> Len(r.inpi_data.br_patents),
                     by_source      |-> _count_by_source(all_br_patents) ]
    IN  [r EXCEPT !.started = Append(@, "merge"),
                  !.results = store(store(store(store(@, "br_patents", all_br_patents),
                                                "statistics", statistics),
                                          "execution_time", t - r.start_time),
                                    "summary", summary),
                  !.pc = "cleanup"]

\* cleanup_all: one turn of its loop, raised: crawler.cleanup() raised; and
\* mutant: the exception leaves the loop
run_cleanup_turn_leaves(r, l, raised) ==
    [r EXCEPT !.cleaned[l] = @ + 1,
              !.cleanup_raised = IF raised THEN @ \cup {l} ELSE @,
              !.cleanup_i = IF raised THEN Len(crawler_values) + 1 ELSE @ + 1]

run_cleanup_turn(r, l, raised) ==
    [r EXCEPT !.cleaned[l] = @ + 1,
              !.cleanup_raised = IF raised THEN @ \cup {l} ELSE @,
              !.cleanup_i = @ + 1]

----------------------------------------------------------------------------
(* api_deploy.py                                                            *)

\* The attributes the __init__ of BaseCrawler and of its subclasses set
CrawlerAttributes ==
    { "name", "layer", "status", "consecutive_failures", "max_failures",
      "circuit_open_until", "circuit_cooldown", "metrics", "request_times",
      "max_request_time_samples", "playwright", "browser", "context", "page",
      "client", "driver", "session_start_time", "max_session_duration",
      "requests_in_session", "max_requests_per_session", "current_user_agent",
      "delay_manager", "fingerprint", "ua_rotator" }

\* reset_circuit_breakers: the list [manager.playwright_crawler, ...] is built
\* first, an attribute the manager does not have raises AttributeError, which
\* `except Exception` turns into HTTPException(500); a crawler is touched only
\* `if crawler and hasattr(crawler, 'circuit_breaker')`, which no backend satisfies
reset_circuit_breakers(cs) ==
    IF ~({"playwright_crawler", "httpx_crawler", "selenium_crawler"} \subseteq
            \* the attributes CrawlerManager.__init__ sets
            { "crawlers", "strategies", "total_requests", "total_successes",
              "total_failures", "layer_usage", "layer_successes" })
    THEN [cs |-> cs, status_code |-> 500]
    ELSE [cs |-> [l \in Layers |-> IF "circuit_breaker" \in CrawlerAttributes
                                   THEN [cs[l] EXCEPT !.consecutive_failures = 0,
                                                      !.circuit_open_until = 0]
                                   ELSE cs[l]],
          status_code |-> 200]

\* POST /api/v6/search: the requests being served, all by the one global
\* orchestrator; a request is where its search is (pc), the fallback call it
\* awaits, and the turn of its cleanup_all
Clients == 1..MaxClients

\* The layer whose operation request c awaits
Awaited(c) == mgr.strategies[c.call.target][c.call.idx]

----------------------------------------------------------------------------
(* utils/delays.py, services/playwright_crawler.py, services/selenium_crawler.py *)

\* The loops `while retry.should_retry() and len(found) == 0` of the stealth
\* crawlers, each with the max_retries of its RetryStrategy
RetryLoops ==
    { [crawler |-> "PlaywrightStealthCrawler", op |-> "search_patents", max_retries |-> 3],
      [crawler |-> "PlaywrightStealthCrawler", op |-> "get_br_patents_from_wo", max_retries |-> 2],
      [crawler |-> "SeleniumStealthCrawler", op |-> "search_patents", max_retries |-> 3] }

\* RetryStrategy.__init__ with the loop it drives: where the loop is (pc),
\* whether the list is non-empty (found), and its history: what each pass of
\* the loop body met
RetryInit ==
    [ pc          |-> "idle",
      crawler     |-> "PlaywrightStealthCrawler",
      op          |-> "search_patents",
      max_retries |-> 3,
      attempt     |-> 0,
      found       |-> FALSE,
      passes      |-> <<>> ]

\* RetryStrategy.should_retry and get_delay (the delay itself is slept)
should_retry(r) == r.attempt < r.max_retries
get_delay(r) == [r EXCEPT !.attempt = @ + 1]

\* One pass of the loop body, met what it meets: the result selector times
\* out (the searches wait for it), another exception, a page with nothing on
\* it, a page with numbers on it (the searches then call retry.reset())
retry_pass(r, met) ==
    LET c == [r EXCEPT !.passes = Append(@, met)]
    IN  IF r.op = "search_patents"
        THEN CASE met = "found" -> [c EXCEPT !.attempt = 0, !.found = TRUE]
               [] met = "raise" -> IF should_retry(c) THEN get_delay(c) ELSE [c EXCEPT !.pc = "break"]
               [] met \in {"timeout", "nothing"} -> IF should_retry(c) THEN get_delay(c) ELSE c
        ELSE CASE met = "found" -> [c EXCEPT !.found = TRUE]
               [] met = "raise" -> IF should_retry(c) THEN get_delay(c) ELSE c
               [] met = "nothing" -> c

----------------------------------------------------------------------------
(* The calls a client makes on one backend.                                 *)

Call(name, l, arg, ret) == [call |-> name, layer |-> l, arg |-> arg, ret |-> ret]

failure_recorded(pre, post) ==
    post.metrics.failed_requests = pre.metrics.failed_requests + 1

success_recorded(pre, post) ==
    post.metrics.successful_requests = pre.metrics.successful_requests + 1

Init ==
    /\ now = 0
    /\ focus \in Layers
    /\ crawlers = [l \in Layers |-> BaseInit]
    /\ last = Call("__init__", focus, FALSE, FALSE)
    /\ streak = 0
    /\ opened_at = -1
    /\ init_failed = FALSE
    /\ clients = [c \in Clients |-> [pc |-> "idle", call |-> ManagerInit, cleanup_i |-> 1]]
    /\ mgr = ManagerInit
    /\ mq = MultiQueryInit
    /\ run = RunInit
    /\ retry = RetryInit

Tick ==
    /\ now + TimeStep <= MaxTime
    /\ now' = now + TimeStep
    /\ UNCHANGED <<focus, crawlers, last>>

CallIsAvailable ==
    LET r == is_available(crawlers[focus], now)
    IN  /\ crawlers' = [crawlers EXCEPT ![focus] = r.b]
        /\ last' = Call("is_available", focus,
                         crawlers[focus].status = CIRCUIT_OPEN /\ r.ret, r.ret)
        /\ UNCHANGED <<now, focus>>

CallRecordSuccess(limit, times) ==
    /\ crawlers[focus].metrics.total_requests < limit
    /\ \E response_time \in times :
          crawlers' = [crawlers EXCEPT ![focus] = record_success(@, response_time)]
    /\ last' = Call("record_success", focus, FALSE, FALSE)
    /\ UNCHANGED <<now, focus>>

CallRecordFailure(limit) ==
    \E is_block \in BOOLEAN :
        /\ crawlers[focus].metrics.total_requests < limit
        /\ crawlers' = [crawlers EXCEPT ![focus] = record_failure(@, now, is_block)]
        /\ last' = Call("record_failure", focus, is_block, FALSE)
        /\ UNCHANGED <<now, focus>>

\* The history of the focus backend, kept while the breaker is driven alone:
\* the failures recorded since the last recorded success, and the time the
\* circuit last opened with no is_available() returning true since
History ==
    LET pre == crawlers[focus]
        post == crawlers'[focus]
    IN  /\ streak' = IF success_recorded(pre, post) THEN 0
                     ELSE IF failure_recorded(pre, post) THEN streak + 1
                     ELSE streak
        /\ opened_at' = IF failure_recorded(pre, post) /\ post.status = CIRCUIT_OPEN THEN now
                        ELSE IF last'.call = "is_available" /\ last'.ret /\ now' = now THEN -1
                        ELSE opened_at
        /\ UNCHANGED <<init_failed, retry>>

NoHistory == UNCHANGED <<streak, opened_at, init_failed, retry>>

\* The history of the focus backend kept while its public methods are called:
\* whether an initialize() of it has raised, in a direct call or inside an
\* operation (first use or session renewal), with no direct call of
\* initialize, record_success or record_failure since
InitHistory(direct) ==
    /\ UNCHANGED <<streak, opened_at, retry>>
    /\ init_failed' = IF last'.call = "initialize" THEN last'.ret
                      ELSE IF direct THEN FALSE
                      ELSE IF last'.call \in Ops THEN init_failed \/ last'.arg
                      ELSE init_failed

NoManager == UNCHANGED <<mgr, mq>>

NoRun == UNCHANGED run

NoServer == UNCHANGED clients

\* The circuit breaker of BaseCrawler alone, its three methods called in any
\* order, as tests/test_layered_system.py::test_circuit_breaker calls them
Next ==
    \/ Tick /\ History /\ NoManager /\ NoRun /\ NoServer
    \/ CallIsAvailable /\ History /\ NoManager /\ NoRun /\ NoServer
    \/ CallRecordSuccess(MaxRequests, {0}) /\ History /\ NoManager /\ NoRun /\ NoServer
    \/ CallRecordFailure(MaxRequests) /\ History /\ NoManager /\ NoRun /\ NoServer

Spec == Init /\ [][Next]_vars

\* The breaker driven past the size of its response-time window; the sample
\* of a success is its ordinal among the successes, which tells the samples
\* apart.  At most MaxOverflow failures come in between.
NextWindow ==
    \/ CallRecordSuccess(max_request_time_samples + MaxOverflow,
                         {crawlers[focus].metrics.successful_requests + 1})
            /\ NoHistory /\ NoManager /\ NoRun /\ NoServer
    \/ /\ crawlers[focus].metrics.failed_requests < MaxOverflow
       /\ CallRecordFailure(max_request_time_samples + MaxOverflow)
       /\ NoHistory /\ NoManager /\ NoRun /\ NoServer

SpecWindow == Init /\ [][NextWindow]_vars

CallInitialize ==
    \E fail_at \in InitChoices(focus, crawlers[focus]) :
        LET r == initialize(focus, crawlers[focus], now, fail_at)
        IN  /\ crawlers' = [crawlers EXCEPT ![focus] = r.b]
            /\ last' = Call("initialize", focus, FALSE, r.raised)
            /\ UNCHANGED <<now, focus>>

CallCleanup ==
    \E fail \in CloseChoices(focus, crawlers[focus]) :
        /\ crawlers' = [crawlers EXCEPT ![focus] = cleanup(focus, @, fail)]
        /\ last' = Call("cleanup", focus, FALSE, FALSE)
        /\ UNCHANGED <<now, focus>>

CallOperation(limit) ==
    \E op \in Ops :
        \E env \in Envs(focus, op, crawlers[focus], now) :
            LET r == wrapped(focus, op, crawlers[focus], now, env)
            IN  /\ \/ crawlers[focus].metrics.total_requests < limit
                   \/ InCooldown(crawlers[focus], now)
                /\ crawlers' = [crawlers EXCEPT ![focus] = r.b]
                /\ last' = Call(op, focus, initialize_raised(focus, crawlers[focus], now, env), r.ret)
                /\ UNCHANGED <<now, focus>>

\* get_all_metrics of the manager that holds the backend
CallGetAllMetrics ==
    LET g == get_all_metrics(mgr, crawlers, now)
    IN  /\ mgr' = g.m
        /\ crawlers' = g.cs
        /\ last' = Call("get_all_metrics", focus, FALSE, FALSE)
        /\ UNCHANGED <<now, focus, mq>>

\* POST /api/v6/reset-circuits on the manager that holds the backend
CallResetCircuits ==
    LET r == reset_circuit_breakers(crawlers)
    IN  /\ crawlers' = r.cs
        /\ last' = Call("reset_circuit_breakers", focus, FALSE, r.status_code = 200)
        /\ UNCHANGED <<now, focus, mgr, mq>>

\* One concrete backend, its public methods called one after the other
NextBackend ==
    \/ Tick /\ InitHistory(FALSE) /\ NoManager /\ NoRun /\ NoServer
    \/ CallIsAvailable /\ InitHistory(FALSE) /\ NoManager /\ NoRun /\ NoServer
    \/ CallRecordSuccess(MaxBackendRequests, {0}) /\ InitHistory(TRUE) /\ NoManager /\ NoRun /\ NoServer
    \/ CallRecordFailure(MaxBackendRequests) /\ InitHistory(TRUE) /\ NoManager /\ NoRun /\ NoServer
    \/ CallInitialize /\ InitHistory(TRUE) /\ NoManager /\ NoRun /\ NoServer
    \/ CallCleanup /\ InitHistory(FALSE) /\ NoManager /\ NoRun /\ NoServer
    \/ CallOperation(MaxBackendRequests) /\ InitHistory(FALSE) /\ NoManager /\ NoRun /\ NoServer
    \/ CallGetAllMetrics /\ InitHistory(FALSE) /\ NoRun /\ NoServer
    \/ CallResetCircuits /\ InitHistory(FALSE) /\ NoManager /\ NoRun /\ NoServer

SpecBackend == Init /\ [][NextBackend]_vars

\* The HTTPX backend driven past the size of its session: its operations
\* called one after the other at one time, each one going through
NextSession ==
    CallOperation(max_requests_per_session + MaxOverflow)
        /\ success_recorded(crawlers[focus], crawlers'[focus])
        /\ NoHistory /\ NoManager /\ NoRun /\ NoServer

InitSession == Init /\ focus = "HTTPX"

SpecSession == InitSession /\ [][NextSession]_vars

----------------------------------------------------------------------------
(* The calls a client makes on the manager.                                 *)

Idle == mgr.pc \in {"idle", "done"}

\* A client awaits one of the three fallback operations
MgrCall(ops, targets, limit) ==
    \E op \in ops, target \in targets :
        /\ Idle
        /\ mgr.calls < limit
        /\ mgr' = begin(mgr, op, target)
        /\ UNCHANGED <<now, focus, crawlers, last, mq>>

\* A turn of the loop whose layer is not available
MgrSkip ==
    /\ mgr.pc = "loop"
    /\ mgr.idx <= Len(mgr.strategies[mgr.target])
    /\ LET l == mgr.strategies[mgr.target][mgr.idx]
           a == is_available(crawlers[l], now)
       IN  /\ ~a.ret
           /\ crawlers' = [crawlers EXCEPT ![l] = a.b]
           /\ mgr' = skip(mgr, l)
    /\ UNCHANGED <<now, focus, last, mq>>

\* A turn of the loop whose layer is available: its operation is awaited
MgrAttempt(faults, limit) ==
    /\ mgr.pc = "loop"
    /\ mgr.layer_usage["PLAYWRIGHT"] + mgr.layer_usage["HTTPX"] + mgr.layer_usage["SELENIUM"] < limit
    /\ mgr.idx <= Len(mgr.strategies[mgr.target])
    /\ LET l == mgr.strategies[mgr.target][mgr.idx]
           a == is_available(crawlers[l], now)
       IN  /\ a.ret
           /\ \E out \in Outcomes(l, mgr.op, a.b, now, faults) :
                /\ crawlers' = [crawlers EXCEPT ![l] = out.b]
                /\ mgr' = attempt(mgr, l, out)
    /\ UNCHANGED <<now, focus, last, mq>>

\* The loop has gone through the strategy
MgrExhausted ==
    /\ mgr.pc = "loop"
    /\ mgr.idx > Len(mgr.strategies[mgr.target])
    /\ mgr' = exhausted(mgr)
    /\ UNCHANGED <<now, focus, crawlers, last, mq>>

InitManager == Init /\ focus = "PLAYWRIGHT"

\* The manager, its fallback operations called one after the other
NextMgr ==
    \/ Idle /\ mq.pc \in {"idle", "done"} /\ Tick /\ NoHistory /\ NoManager /\ NoRun /\ NoServer
    \/ MgrCall(Ops, TargetSites, MaxCalls) /\ NoHistory /\ NoRun /\ NoServer
    \/ MgrSkip /\ NoHistory /\ NoRun /\ NoServer
    \/ MgrAttempt({"initialize", "raise"}, MaxAttempts) /\ NoHistory /\ NoRun /\ NoServer
    \/ MgrExhausted /\ NoHistory /\ NoRun /\ NoServer

SpecMgr == InitManager /\ [][NextMgr]_vars

\* The manager called often enough for the circuits of its backends to open:
\* MaxSearches searches on one target at one time, every backend failing (in
\* its initialize or in its search), finding nothing or finding one number
NextOutage ==
    \/ MgrCall({"search_patents"}, {"google_patents"}, MaxSearches)
            /\ NoHistory /\ NoRun /\ NoServer
    \/ MgrSkip /\ NoHistory /\ NoRun /\ NoServer
    \/ MgrAttempt({"initialize"}, 3 * MaxSearches) /\ Len(mgr'.ret.result.items) <= 1
            /\ NoHistory /\ NoRun /\ NoServer
    \/ MgrExhausted /\ NoHistory /\ NoRun /\ NoServer

SpecOutage == InitManager /\ [][NextOutage]_vars

\* A client awaits search_wo_numbers_multi_query
MQCall ==
    \E queries \in SeqsUpTo({"darolutamide"}, MaxQueries), target \in {"google_patents", "wipo"} :
        /\ Idle
        /\ mq.pc = "idle"
        /\ mq' = mq_begin(queries, target)
        /\ UNCHANGED <<now, focus, crawlers, last, mgr>>

\* The loop awaits search_wo_numbers for the next query
MQSearch ==
    /\ for_query(mq)
    /\ mgr' = begin(mgr, "search_patents", mq.target)
    /\ mq' = mq_search(mq)
    /\ UNCHANGED <<now, focus, crawlers, last>>

\* search_wo_numbers has returned: the rest of the loop body
MQCollect ==
    /\ mq.pc = "wait"
    /\ mgr.pc = "done"
    /\ mq' = mq_collect(mq, mgr.ret)
    /\ UNCHANGED <<now, focus, crawlers, last, mgr>>

\* The delay between two queries has been awaited
MQSleep ==
    /\ mq.pc = "sleep"
    /\ mq' = mq_slept(mq)
    /\ UNCHANGED <<now, focus, crawlers, last, mgr>>

\* The loop has gone through the queries
MQFinish ==
    /\ mq.pc = "loop"
    /\ mq.i > Len(mq.queries)
    /\ mq' = mq_finish(mq)
    /\ UNCHANGED <<now, focus, crawlers, last, mgr>>

\* The manager, its multi-query search called on a manager just constructed
NextMQ ==
    \/ MQCall /\ NoHistory /\ NoRun /\ NoServer
    \/ MQSearch /\ NoHistory /\ NoRun /\ NoServer
    \/ MgrSkip /\ NoHistory /\ NoRun /\ NoServer
    \/ MgrAttempt({"initialize"}, MaxQueries + 2) /\ NoHistory /\ NoRun /\ NoServer
    \/ MgrExhausted /\ NoHistory /\ NoRun /\ NoServer
    \/ MQCollect /\ NoHistory /\ NoRun /\ NoServer
    \/ MQSleep /\ NoHistory /\ NoRun /\ NoServer
    \/ MQFinish /\ NoHistory /\ NoRun /\ NoServer

SpecMQ == InitManager /\ [][NextMQ]_vars

----------------------------------------------------------------------------
(* One call of V6LayeredOrchestrator.search on a manager just constructed.  *)

\* A client awaits search(molecule_name, brand_name)
RunCall ==
    \E brand_name \in {NoBrand, "Nubeqa"} :
        /\ run.pc = "idle"
        /\ run' = [RunInit EXCEPT !.pc = "pubchem", !.brand_name = brand_name, !.start_time = now]
        /\ UNCHANGED <<now, focus, crawlers, last, mgr, mq>>

RunPubchem ==
    \E outcome \in PubChemOutcomes :
        /\ run.pc = "pubchem"
        /\ run' = run_pubchem(run, outcome)
        /\ UNCHANGED <<now, focus, crawlers, last, mgr, mq>>

\* Phase 2: the multi-query search is awaited; it returns, or it raises
RunDiscover ==
    /\ run.pc = "discover"
    /\ LET queries == _build_wo_queries(run.molecule_name, run.pubchem_data.dev_codes,
                                        run.pubchem_data.cas)
       IN  \/ \E others \in Serves("search_patents", { r \in SearchResults : Len(r.items) >= 1 }) :
              \E first \in Serves("search_patents", {}) \cup {others} :
                LET serve == [k \in DOMAIN queries |-> IF k = 1 THEN first ELSE others]
                    s == search_wo_numbers_multi_query(queries, "google_patents",
                                                       mgr, crawlers, now, serve)
                IN  /\ mgr' = s.m
                    /\ crawlers' = s.cs
                    /\ mq' = s.q
                    /\ run' = run_discover(run, queries, s.q, <<first, others>>)
           \/ /\ run' = run_except(run, "discover", now)
              /\ UNCHANGED <<crawlers, mgr, mq>>
    /\ UNCHANGED <<now, focus, last>>

\* Phase 3: get_br_patents_from_wo is awaited for the next WO number; it
\* returns with the layers doing one of served, or (raises) it raises
RunConvertTurn(served, raises) ==
    /\ run.pc = "convert"
    /\ run.i <= Len(run.wo_data.wo_numbers)
    /\ \/ \E bodies \in served :
            LET f == fallback(mgr, crawlers, now, "get_br_patents_from_wo", "google_patents", bodies)
            IN  /\ mgr' = f.m
                /\ crawlers' = f.cs
                /\ run' = run_convert_turn(run, f.m.ret)
       \/ /\ raises
          /\ run' = run_except(run, "convert", now)
          /\ UNCHANGED <<crawlers, mgr>>
    /\ UNCHANGED <<now, focus, last, mq>>

\* Phase 3: _convert_wo_to_br returns
RunConverted ==
    /\ run.pc = "convert"
    /\ run.i > Len(run.wo_data.wo_numbers)
    /\ run' = [run EXCEPT !.results = store(@, "wo_to_br_conversion", wo_to_br_data(run)),
                          !.pc = "inpi"]
    /\ UNCHANGED <<now, focus, crawlers, last, mgr, mq>>

RunInpi ==
    \E molecule_response, brand_response \in INPIResponses :
        /\ run.pc = "inpi"
        /\ run' = run_inpi(run, molecule_response, brand_response)
        /\ UNCHANGED <<now, focus, crawlers, last, mgr, mq>>

RunMerge ==
    /\ run.pc = "merge"
    /\ LET g == get_all_metrics(mgr, crawlers, now)
       IN  /\ mgr' = g.m
           /\ crawlers' = g.cs
           /\ run' = run_merge(run, g.ret, now)
    /\ UNCHANGED <<now, focus, last, mq>>

\* `finally:` cleanup_all awaits cleanup() of the next backend
RunCleanupTurn ==
    /\ run.pc = "cleanup"
    /\ run.cleanup_i <= Len(crawler_values)
    /\ LET l == crawler_values[run.cleanup_i]
       IN  \/ \E fail \in CloseChoices(l, crawlers[l]) :
                /\ crawlers' = [crawlers EXCEPT ![l] = cleanup(l, @, fail)]
                /\ run' = run_cleanup_turn(run, l, FALSE)
           \/ /\ run' = run_cleanup_turn(run, l, TRUE)
              /\ UNCHANGED crawlers
    /\ UNCHANGED <<now, focus, last, mgr, mq>>

RunReturn ==
    /\ run.pc = "cleanup"
    /\ run.cleanup_i > Len(crawler_values)
    /\ run' = [run EXCEPT !.returned = TRUE, !.pc = "returned"]
    /\ UNCHANGED <<now, focus, crawlers, last, mgr, mq>>

NextRun ==
    \/ RunCall /\ NoHistory /\ NoServer
    \/ RunPubchem /\ NoHistory /\ NoServer
    \/ RunDiscover /\ NoHistory /\ NoServer
    \/ RunConvertTurn(Serves("get_br_patents_from_wo", { r \in BRLists : Len(r.items) >= 1 }), TRUE)
            /\ NoHistory /\ NoServer
    \/ RunConverted /\ NoHistory /\ NoServer
    \/ RunInpi /\ NoHistory /\ NoServer
    \/ RunMerge /\ NoHistory /\ NoServer
    \/ RunCleanupTurn /\ NoHistory /\ NoServer
    \/ RunReturn /\ NoHistory /\ NoServer

SpecRun == InitManager /\ [][NextRun]_vars

\* Phase 2 of a run whose queries bring n WO numbers together: the first
\* layer finds the k-th number for the k-th query, and the n-th from then on
RunDiscoverMany ==
    /\ run.pc = "discover"
    /\ LET queries == _build_wo_queries(run.molecule_name, run.pubchem_data.dev_codes,
                                        run.pubchem_data.cas)
       IN  \E n \in 1..MaxWoNumbers :
              /\ n <= Len(queries)
              /\ LET page(k) == List(<<Ident("WO", "", 2016, "", 140200 + (IF k < n THEN k ELSE n))>>)
                     serve == [k \in DOMAIN queries |->
                                 [l \in Layers |-> IF l = "PLAYWRIGHT" THEN Success(l, page(k))
                                                   ELSE Body("failure", 0, List(<<>>))]]
                     s == search_wo_numbers_multi_query(queries, "google_patents",
                                                        mgr, crawlers, now, serve)
                 IN  /\ mgr' = s.m
                     /\ crawlers' = s.cs
                     /\ mq' = s.q
                     /\ run' = run_discover(run, queries, s.q, <<>>)
    /\ UNCHANGED <<now, focus, last>>

\* A run up to the end of its phase 3, on discoveries of up to MaxWoNumbers
\* WO numbers; a family expansion finds one BR number through the first layer
\* or nothing through any
NextConvert ==
    \/ RunCall /\ NoHistory /\ NoServer
    \/ RunPubchem /\ NoHistory /\ NoServer
    \/ RunDiscoverMany /\ NoHistory /\ NoServer
    \/ RunConvertTurn({ bodies \in Serves("get_br_patents_from_wo", { r \in BRLists : Len(r.items) >= 1 }) :
                            bodies["SELENIUM"].effect = "failure" /\ bodies["HTTPX"].effect = "failure" },
                      FALSE)
            /\ NoHistory /\ NoServer
    \/ RunConverted /\ NoHistory /\ NoServer

SpecConvert == InitManager /\ [][NextConvert]_vars

----------------------------------------------------------------------------
(* POST /api/v6/search served for several clients at once: every request    *)
(* awaits search() of the one global orchestrator, so the requests share    *)
(* the manager and its backends; a request is taken as the first fallback   *)
(* call of its discovery followed by the cleanup_all of its `finally`.      *)

\* The discovery of request c awaits search_wo_numbers
ServeCall(c) ==
    /\ clients[c].pc = "idle"
    /\ clients' = [clients EXCEPT ![c].call = begin(@, "search_patents", "google_patents"),
                                  ![c].pc = "loop"]
    /\ UNCHANGED <<now, focus, crawlers, last, mgr, mq, run>>

\* A turn of the loop whose layer is not available
ServeSkip(c) ==
    /\ clients[c].pc = "loop"
    /\ clients[c].call.idx <= Len(mgr.strategies[clients[c].call.target])
    /\ LET l == Awaited(clients[c])
           a == is_available(crawlers[l], now)
       IN  /\ ~a.ret
           /\ crawlers' = [crawlers EXCEPT ![l] = a.b]
           /\ clients' = [clients EXCEPT ![c].call = skip(@, l)]
    /\ UNCHANGED <<now, focus, last, mgr, mq, run>>

\* A turn of the loop whose layer is available: the counters are moved and
\* the operation is awaited
ServeStart(c) ==
    /\ clients[c].pc = "loop"
    /\ clients[c].call.idx <= Len(mgr.strategies[clients[c].call.target])
    /\ LET l == Awaited(clients[c])
           a == is_available(crawlers[l], now)
           j == count_attempt(Joined(mgr, clients[c].call), l)
       IN  /\ a.ret
           /\ crawlers' = [crawlers EXCEPT ![l] = a.b]
           /\ mgr' = Counters(mgr, j)
           /\ clients' = [clients EXCEPT ![c].call = Frame(j), ![c].pc = "await"]
    /\ UNCHANGED <<now, focus, last, mq, run>>

\* The awaited operation is over
ServeEnd(c) ==
    /\ clients[c].pc = "await"
    /\ LET l == Awaited(clients[c])
       IN  \E out \in Outcomes(l, clients[c].call.op, crawlers[l], now, {"initialize"}) :
             LET j == complete(Joined(mgr, clients[c].call), l, out)
             IN  /\ crawlers' = [crawlers EXCEPT ![l] = out.b]
                 /\ mgr' = Counters(mgr, j)
                 /\ clients' = [clients EXCEPT ![c].call = Frame(j),
                                               ![c].pc = IF j.pc = "done" THEN "called" ELSE "loop"]
    /\ UNCHANGED <<now, focus, last, mq, run>>

\* The loop has gone through the strategy
ServeExhausted(c) ==
    /\ clients[c].pc = "loop"
    /\ clients[c].call.idx > Len(mgr.strategies[clients[c].call.target])
    /\ LET j == exhausted(Joined(mgr, clients[c].call))
       IN  /\ mgr' = Counters(mgr, j)
           /\ clients' = [clients EXCEPT ![c].call = Frame(j), ![c].pc = "called"]
    /\ UNCHANGED <<now, focus, crawlers, last, mq, run>>

\* `finally:` of the search of request c: cleanup_all awaits the cleanup()
\* of the next backend
ServeCleanupTurn(c) ==
    /\ clients[c].pc \in {"called", "cleanup"}
    /\ clients[c].cleanup_i <= Len(crawler_values)
    /\ LET l == crawler_values[clients[c].cleanup_i]
       IN  \E fail \in CloseChoices(l, crawlers[l]) :
             crawlers' = [crawlers EXCEPT ![l] = cleanup(l, @, fail)]
    /\ clients' = [clients EXCEPT ![c].cleanup_i = @ + 1, ![c].pc = "cleanup"]
    /\ UNCHANGED <<now, focus, last, mgr, mq, run>>

\* The search of request c returns and the response is sent
ServeReturn(c) ==
    /\ clients[c].pc = "cleanup"
    /\ clients[c].cleanup_i > Len(crawler_values)
    /\ clients' = [clients EXCEPT ![c].pc = "returned"]
    /\ UNCHANGED <<now, focus, crawlers, last, mgr, mq, run>>

NextServe ==
    \/ \E c \in Clients : ServeCall(c) /\ NoHistory
    \/ \E c \in Clients : ServeSkip(c) /\ NoHistory
    \/ \E c \in Clients : ServeStart(c) /\ NoHistory
    \/ \E c \in Clients : ServeEnd(c) /\ NoHistory
    \/ \E c \in Clients : ServeExhausted(c) /\ NoHistory
    \/ \E c \in Clients : ServeCleanupTurn(c) /\ NoHistory
    \/ \E c \in Clients : ServeReturn(c) /\ NoHistory

SpecServe == InitManager /\ [][NextServe]_vars

----------------------------------------------------------------------------
(* The retry loops of the stealth crawlers.                                 *)

\* search_patents or get_br_patents_from_wo of a stealth crawler is called
RetryCall ==
    \E loop \in RetryLoops :
        /\ retry.pc = "idle"
        /\ retry' = [RetryInit EXCEPT !.pc = "loop", !.crawler = loop.crawler, !.op = loop.op,
                                      !.max_retries = loop.max_retries]

\* The while condition holds: one pass of the body
RetryPass ==
    \E met \in (IF retry.op = "search_patents" THEN {"timeout"} ELSE {})
                \cup {"raise", "nothing", "found"} :
        /\ retry.pc = "loop" /\ should_retry(retry) /\ ~retry.found
        /\ Len(retry.passes) < MaxTurns
        /\ retry' = retry_pass(retry, met)

\* The while condition fails, or the body has left the loop: the list is returned
RetryReturn ==
    /\ retry.pc \in {"loop", "break"}
    /\ ~(retry.pc = "loop" /\ should_retry(retry) /\ ~retry.found)
    /\ retry' = [retry EXCEPT !.pc = "returned"]

NextRetry ==
    \/ RetryCall /\ UNCHANGED <<bvars, init_failed>> /\ NoManager /\ NoRun /\ NoServer
    \/ RetryPass /\ UNCHANGED <<bvars, init_failed>> /\ NoManager /\ NoRun /\ NoServer
    \/ RetryReturn /\ UNCHANGED <<bvars, init_failed>> /\ NoManager /\ NoRun /\ NoServer

SpecRetry == InitManager /\ [][NextRetry]_vars

----------------------------------------------------------------------------
(* Steps of the focus backend, told apart by the call recorded and by the   *)
(* request counters it moved.                                               *)

B == crawlers[focus]

RecordFailureStep ==
    /\ last'.call = "record_failure"
    /\ crawlers'[focus].metrics.total_requests = B.metrics.total_requests + 1

RecordSuccessStep ==
    /\ last'.call = "record_success"
    /\ crawlers'[focus].metrics.total_requests = B.metrics.total_requests + 1

IsAvailableStep ==
    /\ last'.call = "is_available"
    /\ now' = now
    /\ crawlers'[focus].metrics = B.metrics

\* C1: the status becomes CIRCUIT_OPEN exactly at the record_failure call that
\* brings consecutive_failures up to max_failures, and a backend is never
\* CIRCUIT_OPEN with fewer than max_failures failures recorded in a row.
C1_OpensExactlyAtThreshold ==
    /\ [](B.status = CIRCUIT_OPEN => streak >= max_failures)
    /\ [][ (B.status # CIRCUIT_OPEN /\ crawlers'[focus].status = CIRCUIT_OPEN)
           <=> (/\ RecordFailureStep
                /\ B.consecutive_failures = max_failures - 1
                /\ crawlers'[focus].consecutive_failures = max_failures) ]_bvars

C1_Witness ==
    /\ last.call = "record_failure"
    /\ B.status = CIRCUIT_OPEN
    /\ B.consecutive_failures = max_failures
    /\ streak = max_failures

\* C2: every record_failure call adds exactly 1 to consecutive_failures, for
\* either value of is_block and also when the circuit is already open; every
\* record_success call sets consecutive_failures to 0.
C2_CounterSteps ==
    [][ /\ RecordFailureStep =>
            crawlers'[focus].consecutive_failures = B.consecutive_failures + 1
        /\ RecordSuccessStep => crawlers'[focus].consecutive_failures = 0 ]_bvars

C2_Witness ==
    /\ last.call = "record_failure"
    /\ last.arg
    /\ B.consecutive_failures = max_failures + 1
    /\ B.status = CIRCUIT_OPEN

\* C3: once the circuit has opened, is_available() returns false (and changes
\* nothing) at every time before circuit_open_until, and the first call at or
\* after circuit_open_until returns true and leaves the backend READY with
\* consecutive_failures 0.
C3_CooldownRecovery ==
    [][ (opened_at # -1 /\ IsAvailableStep) =>
            IF now < B.circuit_open_until
            THEN last'.ret = FALSE /\ crawlers' = crawlers
            ELSE /\ last'.ret = TRUE
                 /\ crawlers'[focus].status = READY
                 /\ crawlers'[focus].consecutive_failures = 0 ]_bvars

\* C4: in every reachable state of a backend, consecutive_failures >=
\* max_failures implies status = CIRCUIT_OPEN.
C4_ThresholdImpliesOpen ==
    \A l \in Layers :
        crawlers[l].consecutive_failures >= max_failures => crawlers[l].status = CIRCUIT_OPEN

\* C5: after the cooldown has elapsed and an availability check has returned
\* the backend to READY, one recorded failure reopens the circuit: the status
\* is CIRCUIT_OPEN and is_available() is false again.
C5_HalfOpenFailureReopens ==
    [][ (last.call = "is_available" /\ last.arg /\ RecordFailureStep) =>
            /\ crawlers'[focus].status = CIRCUIT_OPEN
            /\ ~is_available(crawlers'[focus], now').ret ]_bvars

\* C6: for every backend, in every reachable state, total_requests ==
\* successful_requests + failed_requests.
C6_MetricsConsistent ==
    \A l \in Layers :
        crawlers[l].metrics.total_requests =
            crawlers[l].metrics.successful_requests + crawlers[l].metrics.failed_requests

C6_Witness ==
    /\ last.call \in Ops
    /\ B.metrics.successful_requests >= 1
    /\ B.metrics.failed_requests >= 2
    /\ B.metrics.blocked_requests >= 1

----------------------------------------------------------------------------
(* The fallback call of the manager.                                        *)

\* The place of layer l in the strategy of the call
Pos(l) == CHOOSE k \in DOMAIN strategies(mgr.target) : strategies(mgr.target)[k] = l

Winner == mgr.invoked[Len(mgr.invoked)]

\* C7: in one fallback call the backends are invoked in the order of the
\* target's strategy, each at most once; a call that returns a backend's name
\* returns the non-empty result of the last backend invoked, every backend
\* before it in the strategy was skipped as unavailable or handed back nothing
\* (or raised), and so no backend after it was invoked.
C7_FallbackOrder ==
    /\ \A i, j \in DOMAIN mgr.invoked : i < j => Pos(mgr.invoked[i]) < Pos(mgr.invoked[j])
    /\ mgr.skipped \cap Range(mgr.invoked) = {}
    /\ Len(mgr.returned) = Len(mgr.invoked)
    /\ (mgr.pc = "done" /\ mgr.ret.name # "none") =>
            /\ mgr.invoked # <<>>
            /\ mgr.ret.name = Name(Winner)
            /\ mgr.ret.result = mgr.returned[Len(mgr.returned)]
            /\ Truthy(mgr.ret.result)
            /\ \A k \in 1..(Pos(Winner) - 1) :
                    \/ strategies(mgr.target)[k] \in mgr.skipped
                    \/ \E i \in 1..(Len(mgr.invoked) - 1) :
                            /\ mgr.invoked[i] = strategies(mgr.target)[k]
                            /\ ~Truthy(mgr.returned[i])

C7_Witness ==
    /\ mgr.pc = "done"
    /\ mgr.op = "search_patents"
    /\ mgr.invoked = <<"PLAYWRIGHT", "SELENIUM", "HTTPX">>
    /\ mgr.returned[1] = Raised
    /\ mgr.returned[2] = List(<<>>)
    /\ mgr.ret.name = "HTTPX"
    /\ Len(mgr.ret.result.items) = 2
    /\ \A l \in Layers : mgr.layer_usage[l] = 1

\* C8: an exception raised by a backend's operation does not leave the
\* manager's call: the turn of the loop in which it is raised goes on to the
\* next backend of the strategy, and the call ends by returning a pair.
C8_RaiseNotPropagated ==
    /\ [](mgr.pc # "raised")
    /\ []((mgr.pc = "done" /\ Raised \in Range(mgr.returned)) =>
            mgr.ret.name \in LayerNames /\ mgr.ret.result.kind \in {"list", "dict", "None"})
    /\ [][ (Len(mgr'.returned) = Len(mgr.returned) + 1
            /\ mgr'.returned[Len(mgr'.returned)] = Raised)
           => (mgr'.pc = "loop" /\ mgr'.idx = mgr.idx + 1) ]_vars

C8_Witness ==
    /\ mgr.pc = "done"
    /\ mgr.op = "get_br_patents_from_wo"
    /\ Len(mgr.returned) = 2
    /\ mgr.returned[1] = Raised
    /\ mgr.ret.name = Name(mgr.invoked[2])
    /\ Truthy(mgr.ret.result)

\* C9: whatever the operation, a fallback call in which every backend was
\* skipped, raised or handed back nothing returns (empty, "none") and has
\* added exactly 1 to total_failures.
C9_ExhaustedCountsFailure ==
    (mgr.pc = "done" /\ mgr.ret.name = "none") =>
        /\ mgr.ret.result = Empty(mgr.op)
        /\ mgr.total_failures = mgr.failures_before + 1

\* C10: a multi-query search whose queries all got the same identifiers from
\* search_wo_numbers returns what it returns for one such query; the list it
\* returns is in ascending order and holds no two identifiers with the same
\* normalized form.
C10_MultiQueryDedup ==
    mq.pc = "done" =>
        /\ (mq.results # <<>> /\ \A i \in DOMAIN mq.results : mq.results[i] = mq.results[1])
              => mq.unique_list = mq_finish(mq_collect(mq_begin(<<mq.queries[1]>>, mq.target),
                                                       Pair(List(mq.results[1]), ""))).unique_list
        /\ \A i, j \in DOMAIN mq.unique_list :
              i < j => /\ Before(mq.unique_list[i], mq.unique_list[j])
                       /\ Normalize(mq.unique_list[i]) # Normalize(mq.unique_list[j])

C10_Witness ==
    /\ mq.pc = "done"
    /\ Len(mq.queries) = 3
    /\ \A i \in DOMAIN mq.results : mq.results[i] = mq.results[1]
    /\ Len(mq.results[1]) = 2
    /\ mq.unique_list = mq.results[1]

\* C11: within one multi-query search the searches are entered in the order
\* of the queries, and the search of a query is entered only when the search
\* of every earlier query has returned, its result has been merged and the
\* delay after it has been awaited: at most one search is in progress.
C11_QueriesSequential ==
    /\ [](Len(mq.started) - Len(mq.results) \in {0, 1})
    /\ [][Len(mq'.started) = Len(mq.started) + 1 =>
            /\ mgr.pc \in {"idle", "done"}
            /\ Len(mq.results) = Len(mq.started)
            /\ mq.slept = Len(mq.started)
            /\ mq'.started = [k \in 1..(Len(mq.started) + 1) |-> k]
            /\ mq'.queries = mq.queries]_vars

C11_Witness ==
    /\ mq.pc = "done"
    /\ Len(mq.queries) = 3
    /\ mq.started = <<1, 2, 3>>
    /\ mq.slept = 3

\* C12: on every exit path of search (normal completion, an exception in
\* discovery or in any turn of the conversion loop) cleanup() has been awaited
\* exactly once on every backend when search returns, never before the
\* phases are over, and a cleanup() that raises does not keep the backends
\* after it from being cleaned up.
C12_CleanupOnce ==
    /\ \A l \in Layers :
          /\ run.cleaned[l] <= 1
          /\ run.cleaned[l] > 0 => run.pc \in {"cleanup", "returned"}
    /\ run.returned => \A l \in Layers : run.cleaned[l] = 1

C12_Witness ==
    /\ run.returned
    /\ "convert" \in run.raised
    /\ run.i = 2
    /\ run.cleanup_raised = {"PLAYWRIGHT"}
    /\ \A l \in Layers : run.cleaned[l] = 1

\* C13: when discovery, a turn of the conversion loop or the direct search
\* has raised, search still returns a result, the error has not left the
\* phase (no 'error' key in the result), and the phases after it have been
\* executed.
C13_PhaseErrorContained ==
    (run.returned /\ run.raised \cap {"discover", "convert", "inpi"} # {}) =>
        /\ "error" \notin DOMAIN run.results
        /\ {"inpi", "merge"} \subseteq Range(run.started)

----------------------------------------------------------------------------
(* The scenario of a run: the first backend of the strategy serves every    *)
(* query with the same two identifiers, the family of WO2011140324 holds    *)
(* BR112013001234, no backend finds a family member of WO2016140201, the    *)
(* direct search finds BR112015005678.                                      *)

WO2011140324 == Ident("WO", "", 2011, "", 140324)
WO2016140201 == Ident("WO", "", 2016, "", 140201)
BR112013001234 == Ident("BR", "", 1120, "", 13001234)
BR112015005678 == Ident("BR", "", 1120, "", 15005678)

FirstServes(result) ==
    [l \in Layers |-> IF l = strategies("google_patents")[1]
                      THEN Success(l, result) ELSE Body("failure", 0, List(<<>>))]

Scenario ==
    /\ run.returned
    /\ run.raised = {}
    /\ run.serve = << FirstServes(List(<<WO2011140324, WO2016140201>>)),
                      FirstServes(List(<<WO2011140324, WO2016140201>>)) >>
    /\ Len(run.pairs) = 2
    /\ run.pairs[1].result = List(<<BR112013001234>>)
    /\ run.pairs[2] = Pair(List(<<>>), "none")
    /\ Len(run.inpi_data.br_patents) = 1
    /\ run.inpi_data.br_patents[1].number = BR112015005678

\* C14: in the scenario the run reports 2 unique discovered identifiers, all
\* of them found by the first backend, 1 successful and 1 failed conversion,
\* and a final list of exactly 2 records with two different provenance tags
\* and no two records of the same normalized number.
C14_EndToEnd ==
    Scenario =>
        LET res == run.results
        IN  /\ res.wo_discovery.wo_numbers = <<WO2011140324, WO2016140201>>
            /\ res.wo_discovery.total_found = 2
            /\ res.summary.total_wo_found = 2
            /\ \A n \in LayerNames :
                  res.wo_discovery.layer_usage[n] =
                      IF n = Name(strategies("google_patents")[1])
                      THEN res.wo_discovery.queries_used ELSE 0
            /\ res.wo_to_br_conversion.successful_conversions = 1
            /\ res.wo_to_br_conversion.failed_conversions = 1
            /\ res.summary.wo_with_br = 1
            /\ Len(res.br_patents) = 2
            /\ res.summary.total_br_found = 2
            /\ res.br_patents[1].source # res.br_patents[2].source
            /\ Normalize(res.br_patents[1].number) # Normalize(res.br_patents[2].number)
            /\ { res.br_patents[1].number, res.br_patents[2].number }
                  = { BR112013001234, BR112015005678 }
            /\ "error" \notin DOMAIN res

C14_Witness == Scenario /\ run.brand_name = NoBrand

\* C17: a call of get_all_metrics, in any state, leaves the counters of the
\* manager and the status, consecutive_failures, circuit_open_until, metrics
\* and session of every backend as they were; a backend whose cooldown is
\* over is still CIRCUIT_OPEN after it.
C17_MetricsPureRead ==
    [][last'.call = "get_all_metrics" => (crawlers' = crawlers /\ mgr' = mgr)]_vars

C17_Witness ==
    /\ last.call = "get_all_metrics"
    /\ B.status = CIRCUIT_OPEN
    /\ now >= B.circuit_open_until
    /\ B.consecutive_failures >= max_failures

\* A run in which nothing raised and no source gave a record
ZeroRecords ==
    /\ run.returned
    /\ run.raised = {}
    /\ run.wo_data.wo_numbers = <<>>
    /\ run.inpi_data.br_patents = <<>>

\* C18: a run in which every source gave zero records returns a result that
\* carries status "no results" and no error.
C18_NoResultsStatus ==
    ZeroRecords =>
        /\ "error" \notin DOMAIN run.results
        /\ "status" \in DOMAIN run.results
        /\ run.results["status"] = "no results"

\* The phases in the order of search, and the key each one stores
Phases == <<"pubchem", "discover", "convert", "inpi", "merge">>
Rank(phase) == CHOOSE k \in DOMAIN Phases : Phases[k] = phase
Key(phase) ==
    CASE phase = "pubchem"  -> "molecule_info"
      [] phase = "discover" -> "wo_discovery"
      [] phase = "convert"  -> "wo_to_br_conversion"
      [] phase = "inpi"     -> "inpi_search"
      [] phase = "merge"    -> "summary"
Stored(results, phase) == DOMAIN results[Key(phase)] # {}

\* C19: the operations of a run start in the order intelligence, discovery,
\* expansion, direct search, merge, and when an operation of a phase starts
\* every earlier phase has returned and its sub-result is in the result.
C19_PhasesInOrder ==
    /\ [](\A i, j \in DOMAIN run.started :
            i < j => Rank(run.started[i]) <= Rank(run.started[j]))
    /\ [][Len(run'.started) = Len(run.started) + 1 =>
            \A k \in DOMAIN Phases :
                k < Rank(run'.started[Len(run'.started)]) => Stored(run.results, Phases[k])]_vars

C19_Witness ==
    /\ run.returned
    /\ run.started = <<"pubchem", "discover", "convert", "convert", "inpi", "merge">>
    /\ \A k \in DOMAIN Phases : Stored(run.results, Phases[k])

\* C20: once an initialize() of a backend has raised (in a direct call, at the
\* first use inside an operation, or in a session renewal, whatever the
\* count of consecutive failures it brings), is_available() never returns
\* true for that backend again and no operation of it gets to run.
C20_FailedInitIsFatal ==
    /\ [](init_failed => ~(last.call = "is_available" /\ last.ret))
    /\ [][(init_failed /\ last'.call \in Ops) =>
            /\ crawlers'[focus].metrics = B.metrics
            /\ crawlers'[focus].session = B.session]_vars

\* C16: after the operation that resets all circuit breakers every backend
\* has consecutive_failures = 0 and a circuit_open_until that is_available()
\* no longer fails on, and the operation has left every session as it was.
C16_ResetClearsBreakers ==
    /\ [](last.call = "reset_circuit_breakers" =>
            \A l \in Layers : /\ crawlers[l].consecutive_failures = 0
                               /\ ~InCooldown(crawlers[l], now))
    /\ [][last'.call = "reset_circuit_breakers" =>
            \A l \in Layers : crawlers'[l].session = crawlers[l].session]_vars

\* C15: when requests overlap no backend has two operations awaited at once,
\* and no request's cleanup_all closes the session of a backend while an
\* operation of another request is awaited on it.
C15_ExclusiveBackends ==
    /\ [](\A c, d \in Clients :
            (c # d /\ clients[c].pc = "await" /\ clients[d].pc = "await")
                => Awaited(clients[c]) # Awaited(clients[d]))
    /\ [][\A c, d \in Clients :
            (c # d /\ clients'[c].cleanup_i = clients[c].cleanup_i + 1 /\ clients[d].pc = "await")
                => Awaited(clients[d]) # crawler_values[clients[c].cleanup_i]]_vars

----------------------------------------------------------------------------
(* Anti-bot detection, fail fast and empty results of the backend operations *)

\* The step is a call of operation op on the focus backend
OperationStep(op) == now' = now /\ last'.call = op /\ last'.layer = focus

\* The step is what operation op does under environment env
Under(op, env) ==
    /\ crawlers'[focus] = wrapped(focus, op, crawlers[focus], now, env).b
    /\ last'.ret = wrapped(focus, op, crawlers[focus], now, env).ret

\* C21: whenever the page an operation of a backend fetched is a block page,
\* the backend adds one to failed_requests, blocked_requests and
\* consecutive_failures, and records no success for the call.
C21_BlockCountedAsFailure ==
    [][\A op \in Ops :
         OperationStep(op) =>
            \A env \in Envs(focus, op, crawlers[focus], now) :
                ( /\ Under(op, env)
                  /\ fetches(focus, op, crawlers[focus], now, env)
                  /\ env.body \in BlockedBodies(focus, op) )
                => /\ crawlers'[focus].metrics.failed_requests = crawlers[focus].metrics.failed_requests + 1
                   /\ crawlers'[focus].metrics.blocked_requests = crawlers[focus].metrics.blocked_requests + 1
                   /\ crawlers'[focus].consecutive_failures = is_available(crawlers[focus], now).b.consecutive_failures + 1
                   /\ crawlers'[focus].metrics.successful_requests = crawlers[focus].metrics.successful_requests ]_vars

\* The environments of a search that reaches a page without a match
NoResults(env) ==
    /\ fetches(focus, "search_patents", crawlers[focus], now, env)
    /\ env.body.effect = "success"
    /\ env.body.result = List(<<>>)

\* C22: what search_patents hands to its caller when it has recognised a block
\* page differs from what it hands over when the site has no results.
C22_BlockedDistinctFromEmpty ==
    [][OperationStep("search_patents") =>
         \A env \in Envs(focus, "search_patents", crawlers[focus], now) :
            ( /\ Under("search_patents", env)
              /\ fetches(focus, "search_patents", crawlers[focus], now, env)
              /\ env.body.effect = "block" )
            => \A empty \in Envs(focus, "search_patents", crawlers[focus], now) :
                  NoResults(empty)
                  => last'.ret # wrapped(focus, "search_patents", crawlers[focus], now, empty).ret ]_vars

\* C23: an operation called while now < circuit_open_until returns the empty
\* value ([] or None) without calling initialize and without any I/O: the
\* backend, its metrics and consecutive_failures included, is as it was.
C23_FailFast ==
    [][\A op \in Ops :
         (OperationStep(op) /\ now < crawlers[focus].circuit_open_until)
         => /\ last'.ret = Empty(op)
            /\ ~last'.arg
            /\ crawlers'[focus] = crawlers[focus] ]_vars

\* An operation has been called in the cooldown: the last call is an operation
\* that neither left a session nor had its initialize raise
C23_Witness ==
    /\ last.call \in Ops
    /\ now < crawlers[focus].circuit_open_until
    /\ crawlers[focus].session = {}
    /\ ~last.arg

\* The bodies that reach the site without a transport error and find nothing:
\* a page without a match, or a result list with nothing to click
FindsNothing(body) ==
    \/ body.effect = "none"
    \/ body.effect = "success" /\ ~Truthy(body.result)

\* C24: an operation that reaches the site without a transport error and finds
\* nothing does not increase consecutive_failures, does not open the circuit,
\* and adds one to total_requests and to successful_requests.
C24_EmptyIsSuccess ==
    [][\A op \in Ops :
         OperationStep(op) =>
            \A env \in Envs(focus, op, crawlers[focus], now) :
                ( /\ Under(op, env)
                  /\ fetches(focus, op, crawlers[focus], now, env)
                  /\ FindsNothing(env.body) )
                => /\ crawlers'[focus].consecutive_failures <= crawlers[focus].consecutive_failures
                   /\ crawlers'[focus].status # CIRCUIT_OPEN
                   /\ crawlers'[focus].metrics.total_requests = crawlers[focus].metrics.total_requests + 1
                   /\ crawlers'[focus].metrics.successful_requests = crawlers[focus].metrics.successful_requests + 1 ]_vars

----------------------------------------------------------------------------
(* cleanup and initialize of a backend *)

\* C25: cleanup() returns with every session handle of the backend cleared:
\* on a backend never initialized, when called twice in a row, and when the
\* closing of one of the resources fails.
C25_CleanupReleasesAll ==
    [][(now' = now /\ last'.call = "cleanup" /\ last'.layer = focus)
         => crawlers'[focus].session = {} ]_vars

\* C26: initialize() on a backend that holds session resources acquires
\* nothing and changes no state, so that the backend never holds more than one
\* live underlying session (a resource is acquired only when none is held).
C26_InitializeIdempotent ==
    [][(now' = now /\ last'.call = "initialize" /\ last'.layer = focus
            /\ crawlers[focus].session # {})
         => crawlers'[focus] = crawlers[focus] ]_vars

----------------------------------------------------------------------------
(* The final record list of a run *)

\* The run has built its final list
Merged == run.pc \in {"cleanup", "returned"} /\ "merge" \in Range(run.started)

\* C27: the final list never holds two records whose numbers are equal after
\* normalization; a direct-search record whose normalized number is that of a
\* family-expansion record is left out and a family-expansion record of that
\* number is in the list as it was.
C27_NoDuplicateRecords ==
    Merged =>
        LET final  == run.results.br_patents
            family == run.all_br_patents
            direct == run.inpi_data.br_patents
        IN  /\ \A i, j \in DOMAIN final :
                  i # j => Normalize(final[i].number) # Normalize(final[j].number)
            /\ \A d \in Range(direct) :
                  (\E f \in Range(family) : Normalize(f.number) = Normalize(d.number))
                  => /\ d \notin Range(final)
                     /\ \E f \in Range(family) :
                           f \in Range(final) /\ Normalize(f.number) = Normalize(d.number)

C27_Witness ==
    /\ Merged
    /\ \E d \in Range(run.inpi_data.br_patents), f \in Range(run.all_br_patents) :
          /\ Normalize(f.number) = Normalize(d.number)
          /\ f.number # d.number
          /\ f \in Range(run.results.br_patents)

\* C28: the final list of a run is ordered by relevance score, highest first:
\* every record carries its score and no record comes before one of a higher
\* score.
C28_OrderedByScore ==
    Merged =>
        LET final == run.results.br_patents
        IN  /\ \A i \in DOMAIN final : "score" \in DOMAIN final[i]
            /\ \A i, j \in DOMAIN final :
                  (i < j /\ "score" \in DOMAIN final[i] /\ "score" \in DOMAIN final[j])
                  => final[i].score >= final[j].score

\* V6StealthOrchestrator._extract_br_from_wo_families: wo_numbers[:10]
family_cap == 10

\* C29: in a run the expansion phase awaits the family-expansion fallback for
\* at most the first 10 of the discovered identifiers, however many the
\* discovery returned.
C29_ExpansionCapped ==
    Len(run.pairs) <= family_cap


\* ---- the response-time window ----

\* C30: the window of response times never holds more than
\* max_request_time_samples samples; it holds the most recent ones in arrival
\* order, so a sample arriving at a full window evicts the oldest one.
C30_WindowBoundedFifo ==
    LET request_times == crawlers[focus].request_times
        arrived == crawlers[focus].metrics.successful_requests
    IN  /\ Len(request_times) <= max_request_time_samples
        /\ Len(request_times) = IF arrived < max_request_time_samples
                                THEN arrived ELSE max_request_time_samples
        /\ \A i \in DOMAIN request_times :
              request_times[i] = arrived - Len(request_times) + i

C30_Witness ==
    /\ Len(crawlers[focus].request_times) = max_request_time_samples
    /\ crawlers[focus].metrics.successful_requests > max_request_time_samples
    /\ crawlers[focus].request_times[1] > 1
    /\ last.call = "record_success"

----------------------------------------------------------------------------
(* The counters of the manager.                                             *)

\* The awaited operation of layer l is invoked in this step
Invokes(l) == mgr'.invoked = Append(mgr.invoked, l)

\* C31: in a fallback call a backend that is unavailable (its circuit is
\* open, or its status is FAILED) is not invoked and its usage counter does
\* not move; the usage counter of a backend moves only in the turn of the
\* loop that invokes it, by exactly 1, and it is counted by the time the
\* invocation is on record.
C31_UsageCountsInvocations ==
    [][\A l \in Layers :
          /\ (InCooldown(crawlers[l], now) \/ crawlers[l].status = FAILED)
                => ~Invokes(l) /\ mgr'.layer_usage[l] = mgr.layer_usage[l]
          /\ Invokes(l) => mgr'.layer_usage[l] = mgr.layer_usage[l] + 1
          /\ ~Invokes(l) => mgr'.layer_usage[l] = mgr.layer_usage[l] ]_vars

C31_Witness ==
    /\ mgr.pc = "done"
    /\ \E l \in mgr.skipped : crawlers[l].status = FAILED /\ mgr.layer_usage[l] = 1
    /\ \E l \in mgr.skipped : InCooldown(crawlers[l], now) /\ mgr.layer_usage[l] = 3
    /\ \E l \in Range(mgr.invoked) : mgr.layer_usage[l] = 4

----------------------------------------------------------------------------
(* The direct search of a run.                                              *)

----------------------------------------------------------------------------
(* The session of the HTTPX backend.                                        *)

\* C33: the HTTPX backend renews its session after max_requests_per_session
\* requests: no session, from an initialize to the next cleanup, has issued
\* more than max_requests_per_session requests.
C33_SessionRequestsCapped ==
    crawlers["HTTPX"].requests_in_session <= max_requests_per_session

\* C34: the strategy table is the one built at construction: every target
\* has a chain that names each of the three backends exactly once, and no step
\* of a manager operation adds, removes or reorders an entry of it.
C34_StrategiesFixed ==
    /\ [](/\ DOMAIN mgr.strategies = TargetSites
          /\ \A target \in TargetSites :
                /\ Len(mgr.strategies[target]) = Cardinality(Layers)
                /\ Range(mgr.strategies[target]) = Layers)
    /\ [][mgr'.strategies = mgr.strategies]_vars

C34_Witness ==
    /\ mgr.pc = "done"
    /\ mgr.calls = MaxCalls
    /\ mgr.target = "wipo"
    /\ mgr.skipped # {}
    /\ Len(mgr.invoked) = 2
    /\ mgr.strategies["wipo"] = <<"HTTPX", "PLAYWRIGHT", "SELENIUM">>

----------------------------------------------------------------------------
(* The breaker and the session of a backend.                                *)

\* The circuit state and the metrics of backend post are those of pre
Persists(pre, post) ==
    /\ post.consecutive_failures = pre.consecutive_failures
    /\ post.circuit_open_until = pre.circuit_open_until
    /\ post.metrics = pre.metrics

\* C35: the circuit state and the metrics of a backend outlive its sessions:
\* a cleanup(), an initialize() and a session renewal (the cleanup followed by
\* the initialize that the session check performs), whether or not one of
\* them fails, leave consecutive_failures, circuit_open_until and every
\* counter of metrics as they were.
C35_BreakerOutlivesSession ==
    /\ [][last'.call \in {"cleanup", "initialize"} => Persists(B, crawlers'[focus])]_vars
    /\ [](should_renew(focus, B, now) =>
            \A fail \in CloseChoices(focus, B) :
                \A fail_at \in InitChoices(focus, cleanup(focus, B, fail)) :
                    Persists(B, check_session(focus, B, now, fail, fail_at).b))

C35_Witness ==
    /\ last.call = "initialize"
    /\ ~last.ret
    /\ Range(Handles(focus)) \subseteq B.session
    /\ B.session_start_time > 0
    /\ should_renew(focus, B, now)
    /\ B.circuit_open_until > 0
    /\ B.metrics.failed_requests = max_failures

\* C36: after any sequence of search_wo_numbers calls, calls in which every
\* backend was skipped included, the counters of the manager satisfy
\* total_successes + total_failures <= total_requests.
C36_ManagerCountersConsistent ==
    mgr.total_successes + mgr.total_failures <= mgr.total_requests

----------------------------------------------------------------------------
(* The retry loops.                                                         *)

\* C37: a retry loop driven by a RetryStrategy makes at most max_retries
\* passes, whatever each pass meets (an exception, a timeout, a page with
\* nothing on it), and then returns.
C37_RetriesBounded ==
    Len(retry.passes) <= retry.max_retries


----------------------------------------------------------------------------
(* The pair a fallback call returns.                                        *)

\* C38: the pair a fallback call of the manager returns is coherent: its name
\* is "none" exactly when its result is empty ([] or None), and any other name
\* is the name of a backend of the strategy of the target that was invoked
\* during that call.
C38_ReturnedPairCoherent ==
    mgr.pc = "done" =>
        /\ mgr.ret.name = "none" <=> ~Truthy(mgr.ret.result)
        /\ mgr.ret.name # "none" =>
              \E i \in DOMAIN mgr.invoked :
                  /\ Name(mgr.invoked[i]) = mgr.ret.name
                  /\ mgr.invoked[i] \in Range(strategies(mgr.target))

\* A call that skipped one backend, got nothing from a second and returns the
\* result of the third under its name
C38_Witness ==
    /\ mgr.pc = "done"
    /\ mgr.skipped # {}
    /\ Len(mgr.invoked) = 2
    /\ ~Truthy(mgr.returned[1])
    /\ Truthy(mgr.ret.result)
    /\ mgr.ret.name = Name(mgr.invoked[2])


----------------------------------------------------------------------------
(* The histogram of a multi-query search.                                   *)

\* sum(layer_usage_count.values())
Counted(q) ==
    q.layer_usage_count[Name("PLAYWRIGHT")] + q.layer_usage_count[Name("HTTPX")]
        + q.layer_usage_count[Name("SELENIUM")] + q.layer_usage_count["none"]

\* C39: the histogram search_wo_numbers_multi_query returns counts every
\* query once: its values, the one of "none" included, add up to the number
\* of queries given (and, while the call runs, to the number of queries whose
\* search has returned).
C39_HistogramCountsQueries ==
    /\ Counted(mq) = Len(mq.results)
    /\ mq.pc = "done" => Counted(mq) = Len(mq.queries)

\* A call with MaxQueries queries has returned: no backend answered one of
\* them, a backend answered another
C39_Witness ==
    /\ mq.pc = "done"
    /\ Len(mq.queries) = MaxQueries
    /\ mq.layer_usage_count["none"] > 0
    /\ mq.layer_usage_count["none"] < MaxQueries


----------------------------------------------------------------------------
(* The request counters of a backend.                                       *)

\* The counters of metrics that count requests
RequestCounters ==
    {"total_requests", "successful_requests", "failed_requests", "blocked_requests"}

\* C40: for every backend, in every reachable state, blocked_requests is at
\* most failed_requests, and no step lowers total_requests,
\* successful_requests, failed_requests or blocked_requests.
C40_CountersOrderedAndMonotone ==
    /\ [](\A l \in Layers :
            crawlers[l].metrics.blocked_requests <= crawlers[l].metrics.failed_requests)
    /\ [][\A l \in Layers : \A k \in RequestCounters :
            crawlers'[l].metrics[k] >= crawlers[l].metrics[k]]_vars

\* A backend for which a success, a blocked request and a failure that was
\* not a block have been recorded
C40_Witness ==
    \E l \in Layers :
        /\ crawlers[l].metrics.successful_requests > 0
        /\ crawlers[l].metrics.blocked_requests > 0
        /\ crawlers[l].metrics.blocked_requests < crawlers[l].metrics.failed_requests

====
